---- MODULE Spec2Model ----
(***************************************************************************)
(* A model of the reactive-stream core of g-rxjs: Subscription,            *)
(* Subscriber, Observable, Subject, the operators map / filter / take,     *)
(* the adapters fromArrayLike, fromEvent, fromPromise and timer, and       *)
(* Scheduler / AsyncAction; and                                            *)
(* of three utilities of the application around it: the NetworkManager's   *)
(* request queue, the WebSocketManager's reconnection and the              *)
(* SecurityManager's rate limit.                                           *)
(*                                                                         *)
(* JavaScript is single threaded: a call and everything it calls           *)
(* synchronously is one action, except where a claim is about the inside   *)
(* of a call (the loop of fromArrayLike, a tick of AsyncAction); there the *)
(* call is split into steps and nothing else may run between them.         *)
(***************************************************************************)
EXTENDS Integers, Sequences, FiniteSets, TLC

\* ------------------------------------------------------------------------
\* Bounds of the model
\* ------------------------------------------------------------------------
MaxLen == 2
\* longest array handed to fromArrayLike (besides the scenario's)
MaxOps == 1
\* longest operator chain given to pipe (besides the scenario's)
MaxSubs == 2
\* subscribe() calls on one Observable / Subject
MaxCalls == 4
\* calls the environment (producer, user code) makes after construction
MaxTicks == 3
\* times the platform fires the timers of one action beyond the continuations
\* its work function limits itself to
MaxChecks == 3
\* calls of SecurityManager.checkRateLimit
MaxTime == 3
\* the latest reading of the clock
MaxRequests == 3
\* requests put on the NetworkManager's queue
MaxPasses == 4
\* processing passes of the queue a run is followed through
MaxConcurrent == 3
\* largest value given to setMaxConcurrentRequests

VARIABLES
    cfg,        \* pipe: the Observable under test: source kind, array, operators
    subs,       \* pipe: one record per subscribe() call on the piped Observable
    seen,       \* pipe: take's closure variable `seen`, one per operator of the chain
    listeners,  \* pipe: the listeners of the event target, in the order they were added
    piped,      \* pipe: a call of Observable.pipe: its input, its operators, its result
    calls,      \* number of environment calls made so far
    subscribers,\* subject: Subject.subscribers, the registered Subscribers in order
    subjHist,   \* subject: history of the calls made on the Subject
    tcfg,       \* timer: the arguments timer() was called with
    tsubs,      \* timer: one record per subscribe() call on the timer Observable
    actions,    \* timer: the AsyncAction each subscription scheduled
    timers,     \* timer: the platform's live setInterval timers, and how many were made
    tick,       \* timer: the execute() call on the stack, if any
    rate,       \* rate limit: SecurityManager.rateLimits, the clock, the calls made
    ws,         \* websocket: the WebSocketManager's fields and its configuration
    net,        \* network: the NetworkManager's fields and its running passes
    sbn,        \* subscription: one Subscription, the values given to add, the teardown calls
    promise     \* promise: the promise given to fromPromise and its pending reactions

pipeVars == <<cfg, subs, seen, listeners, piped>>
subjVars == <<subscribers, subjHist>>
timerVars == <<tcfg, tsubs, actions, timers, tick>>
unitVars == <<sbn, promise>>
appVars == <<rate, ws, net, unitVars>>
vars == <<pipeVars, subjVars, timerVars, appVars, calls>>

\* ------------------------------------------------------------------------
\* Values, projections, predicates
\* ------------------------------------------------------------------------
Values == {2, 5}

Project(f, v) ==
    CASE f = "double" -> v * 2
      [] f = "inc"    -> v + 1

Predicate(p, v) ==
    CASE p = "gt4"  -> v > 4
      [] p = "even" -> v % 2 = 0

MapOp(f)    == [type |-> "map",    f |-> f,      p |-> "none", count |-> 0]
FilterOp(p) == [type |-> "filter", f |-> "none", p |-> p,      count |-> 0]
TakeOp(n)   == [type |-> "take",   f |-> "none", p |-> "none", count |-> n]

TakeCounts == {-1, 0, 1, 2}

Operators ==
    {MapOp(f) : f \in {"double", "inc"}} \cup {FilterOp(p) : p \in {"gt4", "even"}}
        \cup {TakeOp(n) : n \in TakeCounts}

DrivenOperators == {MapOp("double"), FilterOp("gt4"), TakeOp(0), TakeOp(2)}
\* the operators tried around the sources driven from outside (the
\* hand-driven one and fromEvent): one of each kind, take(0) and take(2)

SeqsUpTo(S, n) == UNION {[1..k -> S] : k \in 0..n}

Undefined == [type |-> "undefined", n |-> 0]
Number(n) == [type |-> "number", n |-> n]
SchedulerObject == [type |-> "scheduler", n |-> 0]
\* what may be passed as timer's second argument

TimerArgs(dueTime, intervalOrScheduler) ==
    [dueTime |-> dueTime, intervalOrScheduler |-> intervalOrScheduler]
\* what timer closes over: the Observable it returns

TimerCall(dueTime, intervalOrScheduler) ==
    [call |-> "timer", a1 |-> dueTime, a2 |-> intervalOrScheduler]

IntervalCall(period) == [call |-> "interval", a1 |-> period, a2 |-> Undefined]
\* the expression under test: timer(a1, a2) or interval(a1)

\* ------------------------------------------------------------------------
\* Observables under test
\* ------------------------------------------------------------------------
fromArrayLike(arrayLike) ==
    [kind |-> "array", arr |-> arrayLike, sel |-> "none", ops |-> <<>>]
\* the producer loops over arrayLike and completes (steps ArrayEmit, ArrayComplete)

of(args) == fromArrayLike(args)
\* of(...args): the arguments as an array-like, emitted in order, then complete

ManualSource == [kind |-> "manual", arr |-> <<>>, sel |-> "none", ops |-> <<>>]
\* new Observable(producer) whose producer keeps the subscriber and calls
\* next / error / complete on it later, and returns a teardown function

SyncSource(values) ==
    [kind |-> "sync", arr |-> values, sel |-> "none", ops |-> <<>>]
\* new Observable(producer) whose producer calls next with each of the values
\* and returns (nothing)

ThrowingSource(values) ==
    [kind |-> "throwing", arr |-> values, sel |-> "none", ops |-> <<>>]
\* new Observable(producer) whose producer calls next with each of the values
\* and then throws

fromEvent(resultSelector) ==
    [kind |-> "event", arr |-> <<>>, sel |-> resultSelector, ops |-> <<>>]
\* fromEvent(target, "x", options, resultSelector) on the one event target
\* there is; resultSelector is "none" (not given) or "count"
\* ((...args) => args.length)

SynchronousKinds == {"array", "sync", "throwing"}
\* the sources whose producer emits while subscribe() is on the stack

ApplyOperator(fn, source) == [source EXCEPT !.ops = Append(@, fn)]
\* fn(source): map, filter and take return a new Observable around source. An
\* Observable is kept as its innermost source and the operators around it,
\* innermost first

RECURSIVE reduce(_, _, _)
reduce(fns, i, prev) ==
    IF i > Len(fns) THEN prev ELSE reduce(fns, i + 1, ApplyOperator(fns[i], prev))
\* fns.reduce((prev, fn) => fn(prev), input) from element i on

RECURSIVE reduceRight(_, _, _)
reduceRight(fns, i, prev) ==
    IF i < 1 THEN prev ELSE reduceRight(fns, i - 1, ApplyOperator(fns[i], prev))

pipeFromArray_rightToLeft(input, fns) == reduceRight(fns, Len(fns), input)
\* the operators applied last to first

pipeFromArray(input, fns) ==
    IF Len(fns) = 1 THEN ApplyOperator(fns[1], input) ELSE reduce(fns, 1, input)
\* fns is the array of pipe's rest parameter, never undefined, so the first
\* branch (!fns) is never taken: one operator is called directly, any other
\* number goes through reduce, which for no operator returns input itself

Observable_pipe(observable, operations) == pipeFromArray(observable, operations)
\* return pipeFromArray(operations)(this)

ScenarioPipe ==
    pipeFromArray(of(<<1, 2, 3, 4, 5>>),
                  <<MapOp("double"), FilterOp("gt4"), MapOp("inc")>>)

PipeConfigs ==
    {pipeFromArray(src, ops) :
        src \in {fromArrayLike(a) : a \in SeqsUpTo(Values, MaxLen)}
                  \cup {ThrowingSource(a) : a \in SeqsUpTo(Values, MaxLen)},
        ops \in SeqsUpTo(Operators, MaxOps)}
    \cup {pipeFromArray(SyncSource(a), ops) :
             a \in SeqsUpTo(Values, MaxLen), ops \in SeqsUpTo(Operators, 1)}
    \cup {pipeFromArray(ManualSource, ops) : ops \in SeqsUpTo(DrivenOperators, 1)}
    \cup {pipeFromArray(fromEvent(sel), ops) :
             sel \in {"none", "count"}, ops \in SeqsUpTo(DrivenOperators, 1)}
    \cup {ScenarioPipe}
\* chains of up to MaxOps operators are tried around the array sources; the
\* producer that emits by itself and the sources driven from outside
\* (ManualSource, fromEvent) are tried alone and behind one operator

K == Len(cfg.ops)
\* Subscriber j (0..K) of a subscription: 0 is the one given to the source's
\* producer, K the one subscribe() returns to the user; operator j+1 sits
\* between Subscriber j (which holds its derived observer) and Subscriber j+1
Levels == 0..K

\* ------------------------------------------------------------------------
\* Subscription, Subscriber
\* ------------------------------------------------------------------------
Functions == {"teardown", "t1", "t2"}
\* the values here that are functions: "teardown" is what a producer
\* returns, "t1" and "t2" are two teardowns that can be told apart

FalsyValues == {"undefined", "null", "zero"}
\* the values here that `teardown &&` takes for false

isFunction(x) == x \in Functions
\* what a producer may return here: "undefined" or the function "teardown"

Subscription_add_truthy(finalizers, teardown) ==
    IF teardown \notin FalsyValues
    THEN Append(finalizers, teardown)
    ELSE finalizers
\* add keeping every truthy value, callable or not

Subscription_add(finalizers, teardown) ==
    IF teardown \notin FalsyValues /\ isFunction(teardown)
    THEN Append(finalizers, teardown)
    ELSE finalizers

Subscriber_forwardsNext_inverted(isStopped) == isStopped
\* next forwarding only once stopped

Subscriber_forwardsNext_unguarded(isStopped) == TRUE
\* next without the isStopped check

Subscriber_forwardsNext(isStopped) == ~isStopped

Subscriber_forwardsComplete_unguarded(isStopped) == TRUE
\* complete without the isStopped check

Subscriber_forwardsComplete(isStopped) == ~isStopped

SubscriberOwnKeys == {"_finalizers", "destination", "isStopped"}
\* the own enumerable properties of a Subscriber instance: its fields. next,
\* error and complete are methods of the prototype

DerivedObserverKeys == SubscriberOwnKeys \cup {"next"}
\* { ...subscriber, next(value) {...} }: object spread copies own enumerable
\* properties only

Ev(t, v) == [t |-> t, v |-> v]

NewSubscription(pc) ==
    [pc      |-> pc,
     i       |-> 0,
     stopped |-> [j \in Levels |-> FALSE],
     fin     |-> [j \in Levels |-> <<>>],
     inn     |-> [j \in Levels |-> <<>>],
     out     |-> [j \in Levels |-> <<>>],
     ran     |-> [j \in Levels |-> FALSE],
     completeCalls |-> [j \in Levels |-> 0],
     errorCalls    |-> [j \in Levels |-> 0],
     late    |-> FALSE,
     torn    |-> 0,
     tornAt  |-> 0,
     unsubs  |-> 0,
     log     |-> <<>>]
\* stopped, fin: isStopped and _finalizers of Subscriber j.  log: the calls the
\* user's observer received.  History kept for the properties: inn[j] the
\* values passed to Subscriber j's next, out[j] those it forwarded to its
\* destination, ran[j] whether its complete() was ever called, late whether a
\* next was forwarded by a Subscriber whose complete() had run, torn the
\* number of teardown executions, completeCalls[j] and errorCalls[j] the
\* number of calls of Subscriber j's complete() and error(), unsubs the
\* number of unsubscribe() calls on the Subscriber subscribe() returned

RECURSIVE Subscriber_next(_, _, _)
RECURSIVE Subscriber_complete(_, _)
RECURSIVE Subscriber_error(_, _)

take_next_lateComplete(op, j, v, st) ==
    IF op.count > 0
    THEN LET st1 == [st EXCEPT !.seen[j] = @ + 1]
             st2 == Subscriber_next(j, v, st1)
         IN  IF st2.seen[j] > op.count THEN Subscriber_complete(j, st2) ELSE st2
    ELSE st
\* take completing one value late (seen > count)

take_next_nonNegative(op, j, v, st) ==
    IF op.count >= 0
    THEN LET st1 == [st EXCEPT !.seen[j] = @ + 1]
             st2 == Subscriber_next(j, v, st1)
         IN  IF st2.seen[j] >= op.count THEN Subscriber_complete(j, st2) ELSE st2
    ELSE st
\* take letting count = 0 through (count >= 0)

take_next(op, j, v, st) ==
    IF op.count > 0
    THEN LET st1 == [st EXCEPT !.seen[j] = @ + 1]
             st2 == Subscriber_next(j, v, st1)
         IN  IF st2.seen[j] >= op.count THEN Subscriber_complete(j, st2) ELSE st2
    ELSE st
\* j is the downstream Subscriber (`subscriber` in the operator's closure)

map_next_unprojected(op, j, v, st) == Subscriber_next(j, v, st)
\* map forwarding the source value itself

map_next(op, j, v, st) == Subscriber_next(j, Project(op.f, v), st)

filter_next_unfiltered(op, j, v, st) == Subscriber_next(j, v, st)
\* filter forwarding without asking the predicate

filter_next(op, j, v, st) ==
    IF Predicate(op.p, v) THEN Subscriber_next(j, v, st) ELSE st

destination_next(j, v, st) ==
    IF j = K
    THEN [st EXCEPT !.sub.log = Append(@, Ev("next", v))]
    ELSE LET op == cfg.ops[j + 1]
         IN  CASE op.type = "map"    -> map_next(op, j + 1, v, st)
               [] op.type = "filter" -> filter_next(op, j + 1, v, st)
               [] op.type = "take"   -> take_next(op, j + 1, v, st)

destination_complete(j, st) ==
    IF j = K
    THEN [st EXCEPT !.sub.log = Append(@, Ev("complete", 0))]
    ELSE IF "complete" \in DerivedObserverKeys
         THEN Subscriber_complete(j + 1, st)
         ELSE st
\* this.destination.complete?.(): a derived observer without the key is skipped

destination_error(j, st) ==
    IF j = K
    THEN [st EXCEPT !.sub.log = Append(@, Ev("error", 0))]
    ELSE IF "error" \in DerivedObserverKeys
         THEN Subscriber_error(j + 1, st)
         ELSE st

Subscriber_next(j, v, st) ==
    LET st1 == [st EXCEPT !.sub.inn[j] = Append(@, v)]
    IN  IF Subscriber_forwardsNext(st1.sub.stopped[j])
        THEN destination_next(j, v,
                 [st1 EXCEPT !.sub.out[j] = Append(@, v),
                             !.sub.late = @ \/ st1.sub.ran[j]])
        ELSE st1

Subscriber_complete(j, st) ==
    LET st1 == [st EXCEPT !.sub.ran[j] = TRUE, !.sub.completeCalls[j] = @ + 1]
    IN  IF Subscriber_forwardsComplete(st.sub.stopped[j])
        THEN destination_complete(j, [st1 EXCEPT !.sub.stopped[j] = TRUE])
        ELSE st1

Subscriber_error_guarded(j, st) ==
    LET st1 == [st EXCEPT !.sub.errorCalls[j] = @ + 1]
    IN  IF ~st.sub.stopped[j] THEN destination_error(j, st1) ELSE st1
\* error forwarding only while not stopped

Subscriber_error(j, st) ==
    destination_error(j, [st EXCEPT !.sub.errorCalls[j] = @ + 1])
\* this.destination.error?.(err): no isStopped check, isStopped not set

Subscription_unsubscribe_stops(j, r) ==
    [r EXCEPT !.torn = @ + Len(r.fin[j]),
              !.tornAt = IF r.torn = 0 /\ Len(r.fin[j]) > 0 THEN Len(r.log) ELSE @,
              !.unsubs = @ + 1,
              !.stopped[j] = TRUE]
\* unsubscribe that also sets isStopped

Subscription_unsubscribe(j, r) ==
    [r EXCEPT !.torn = @ + Len(r.fin[j]),
              !.unsubs = @ + 1,
              !.tornAt = IF r.torn = 0 /\ Len(r.fin[j]) > 0 THEN Len(r.log) ELSE @]
\* this._finalizers.forEach((teardown) => teardown())

\* ------------------------------------------------------------------------
\* Observable.subscribe on the piped Observable, and its sources
\* ------------------------------------------------------------------------
ProducerResult(j) ==
    IF j = 0 /\ cfg.kind \in {"manual", "event"} THEN "teardown" ELSE "undefined"
\* what _subscribe returns to the subscribe() call that made Subscriber j: the
\* manual producer and fromEvent's return a function; fromArrayLike's and the
\* operators' producers return nothing

Observable_subscribe_return(r) ==
    [r EXCEPT !.fin = [j \in Levels |-> Subscription_add(r.fin[j], ProducerResult(j))],
              !.pc  = "returned"]
\* if (teardown) subscriber.add(teardown); return subscriber

Observable_subscribe_caught(r) ==
    [Observable_subscribe_return(r) EXCEPT !.log = Append(@, Ev("error", 0))]
\* subscribe catching what the producer throws, handing it to the observer's
\* error and returning the Subscriber

Observable_subscribe_throw(r) == [r EXCEPT !.pc = "thrown"]
\* const teardown = this._subscribe(subscriber) throws, outside any try: the
\* lines after it do not run, in this subscribe() and in those of the
\* operators around it

ArrayLoopRuns_offByOne(i, arrayLike) == i < Len(arrayLike) - 1
\* the loop stopping one element early

ArrayLoopRuns(i, arrayLike) == i < Len(arrayLike)

ArrayElement(arrayLike, i) == arrayLike[i + 1]

Busy == \E s \in DOMAIN subs : subs[s].pc \notin {"returned", "thrown"}
\* a subscribe() call is on the stack: nothing else runs

Cascade(s) == [sub |-> subs[s], seen |-> seen]

Commit(s, st) ==
    /\ subs' = [subs EXCEPT ![s] = st.sub]
    /\ seen' = st.seen

addEventListener(ls, name, handler) ==
    IF \E i \in DOMAIN ls : ls[i] = [name |-> name, handler |-> handler]
    THEN ls
    ELSE Append(ls, [name |-> name, handler |-> handler])
\* the target keeps a listener once; the handler of subscription s is s

removeEventListener_byName(ls, name, handler) ==
    SelectSeq(ls, LAMBDA l : l.name # name)
\* every listener of the event taken off, whoever added it

removeEventListener(ls, name, handler) ==
    SelectSeq(ls, LAMBDA l : ~(l.name = name /\ l.handler = handler))

fromEvent_value(resultSelector, args) ==
    IF resultSelector # "none"
    THEN Len(args)
    ELSE IF Len(args) = 1 THEN args[1] ELSE args
\* what handler passes to subscriber.next

RECURSIVE dispatchEvent(_, _, _, _)
dispatchEvent(i, name, args, w) ==
    IF i > Len(listeners)
    THEN w
    ELSE LET l == listeners[i]
         IN  IF l.name = name /\ l.handler # 0
             THEN LET st == Subscriber_next(0, fromEvent_value(cfg.sel, args),
                                            [sub |-> w.subs[l.handler], seen |-> w.seen])
                  IN  dispatchEvent(i + 1, name, args,
                          [subs |-> [w.subs EXCEPT ![l.handler] = st.sub],
                           seen |-> st.seen])
             ELSE dispatchEvent(i + 1, name, args, w)
\* the target calls its listeners for the event in the order they were added;
\* w is the subscriptions and take counters as the handlers leave them

Subscribe ==
    /\ ~Busy
    /\ Len(subs) < MaxSubs
    /\ subs' = Append(subs,
                 IF cfg.kind \in SynchronousKinds
                 THEN NewSubscription("producing")
                 ELSE Observable_subscribe_return(NewSubscription("producing")))
    /\ listeners' = IF cfg.kind = "event"
                    THEN addEventListener(listeners, "x", Len(subs) + 1)
                    ELSE listeners
    /\ UNCHANGED <<cfg, seen, calls, piped, subjVars, timerVars, appVars>>

ArrayEmit(s) ==
    /\ subs[s].pc = "producing"
    /\ ArrayLoopRuns(subs[s].i, cfg.arr)
    /\ LET st == Subscriber_next(0, ArrayElement(cfg.arr, subs[s].i), Cascade(s))
       IN  Commit(s, [st EXCEPT !.sub.i = @ + 1])
    /\ UNCHANGED <<cfg, calls, listeners, piped, subjVars, timerVars, appVars>>

ArrayComplete(s) ==
    /\ cfg.kind = "array"
    /\ subs[s].pc = "producing"
    /\ ~ArrayLoopRuns(subs[s].i, cfg.arr)
    /\ LET st == Subscriber_complete(0, Cascade(s))
       IN  Commit(s, [st EXCEPT !.sub.pc = "produced"])
    /\ UNCHANGED <<cfg, calls, listeners, piped, subjVars, timerVars, appVars>>

ProducerReturn(s) ==
    /\ cfg.kind = "sync"
    /\ subs[s].pc = "producing"
    /\ ~ArrayLoopRuns(subs[s].i, cfg.arr)
    /\ subs' = [subs EXCEPT ![s].pc = "produced"]
    /\ UNCHANGED <<cfg, seen, calls, listeners, piped, subjVars, timerVars, appVars>>

ProducerThrow(s) ==
    /\ cfg.kind = "throwing"
    /\ subs[s].pc = "producing"
    /\ ~ArrayLoopRuns(subs[s].i, cfg.arr)
    /\ subs' = [subs EXCEPT ![s] = Observable_subscribe_throw(@)]
    /\ UNCHANGED <<cfg, seen, calls, listeners, piped, subjVars, timerVars, appVars>>

SubscribeReturn(s) ==
    /\ subs[s].pc = "produced"
    /\ subs' = [subs EXCEPT ![s] = Observable_subscribe_return(@)]
    /\ UNCHANGED <<cfg, seen, calls, listeners, piped, subjVars, timerVars, appVars>>

SourceNext(s, v) ==
    /\ ~Busy /\ cfg.kind = "manual" /\ calls < MaxCalls
    /\ Commit(s, Subscriber_next(0, v, Cascade(s)))
    /\ calls' = calls + 1
    /\ UNCHANGED <<cfg, listeners, piped, subjVars, timerVars, appVars>>

SourceComplete(s) ==
    /\ ~Busy /\ cfg.kind = "manual" /\ calls < MaxCalls
    /\ Commit(s, Subscriber_complete(0, Cascade(s)))
    /\ calls' = calls + 1
    /\ UNCHANGED <<cfg, listeners, piped, subjVars, timerVars, appVars>>

SourceError(s) ==
    /\ ~Busy /\ cfg.kind = "manual" /\ calls < MaxCalls
    /\ Commit(s, Subscriber_error(0, Cascade(s)))
    /\ calls' = calls + 1
    /\ UNCHANGED <<cfg, listeners, piped, subjVars, timerVars, appVars>>

EventNames == {"x", "y"}

EventArgs == {<<>>, <<2>>, <<2, 5>>}
\* the arguments the target calls its listeners with: none, one, several

FireEvent(name, args) ==
    /\ ~Busy /\ cfg.kind = "event" /\ calls < MaxCalls
    /\ K = 0 \/ cfg.sel # "none" \/ Len(args) = 1
    /\ name # "x" => args = <<>>
    /\ LET w == dispatchEvent(1, name, args, [subs |-> subs, seen |-> seen])
       IN  subs' = w.subs /\ seen' = w.seen
    /\ calls' = calls + 1
    /\ UNCHANGED <<cfg, listeners, piped, subjVars, timerVars, appVars>>
\* the target fires an event (the operators' functions here take numbers, so
\* behind an operator only a number is emitted; an event nobody listens to is
\* fired without arguments)

Unsubscribe(s) ==
    /\ ~Busy /\ calls < MaxCalls
    /\ subs[s].pc = "returned"
    /\ subs' = [subs EXCEPT ![s] = Subscription_unsubscribe(K, @)]
    /\ listeners' = IF cfg.kind = "event" /\ K = 0 /\ Len(subs[s].fin[K]) > 0
                    THEN removeEventListener(listeners, "x", s)
                    ELSE listeners
    /\ calls' = calls + 1
    /\ UNCHANGED <<cfg, seen, piped, subjVars, timerVars, appVars>>
\* the user calls unsubscribe() on the Subscriber that subscribe() returned:
\* its finalizers run. The source's teardown is one of them only when that
\* Subscriber is the one the source's producer got (K = 0); fromEvent's
\* teardown takes its handler off the target

ForeignListeners == <<[name |-> "x", handler |-> 0]>>
\* a listener for event "x" that somebody else added to the target

NotPiped == [input |-> ManualSource, fns |-> <<>>, result |-> <<>>]

PipeStart ==
    /\ subs = <<>>
    /\ listeners = ForeignListeners
    /\ piped = NotPiped
    /\ seen = [j \in 0..Len(cfg.ops) |-> 0]

SubjectStart ==
    /\ subscribers = <<>>
    /\ subjHist = [callNo |-> 0, completed |-> FALSE, trace |-> <<>>]

TimerStart ==
    /\ tsubs = <<>>
    /\ actions = <<>>
    /\ timers = [live |-> {}, made |-> 0]
    /\ tick = [pc |-> "idle", action |-> 0, asked |-> 0]

RateIdle ==
    [windowMs |-> 0, now |-> 0, rateLimits |-> [key \in {"a", "b"} |-> <<>>], hist |-> <<>>]
\* static rateLimits = {}: no key has an entry

RateStart == rate = RateIdle

WsIdle ==
    [cfg |-> [autoReconnect |-> TRUE, maxReconnectAttempts |-> 5, ctorThrows |-> FALSE],
     status |-> "closed", socket |-> FALSE, reconnectAttempts |-> 0,
     reconnectTimer |-> FALSE, made |-> 0, opened |-> FALSE]
\* a WebSocketManager's fields as declared, before its constructor ran:
\* _status$ CLOSED, _socket null, _reconnectAttempts 0, no reconnect timer;
\* cfg is the default configuration. made and opened are history

WsStart == ws = WsIdle

NoRequest == [id |-> 0, domain |-> "none", priority |-> 0]

NetIdle ==
    [max |-> 6, online |-> TRUE, queue |-> <<>>, active |-> 0, passes |-> <<>>,
     deferred |-> 0, nextId |-> 1, started |-> 0,
     counter |-> [def |-> FALSE, count |-> 0, stale |-> FALSE]]
\* a NetworkManager as constructed: _maxConcurrentRequests 6, an empty
\* queue, no active request, no domain counter. passes are the running
\* subscriptions _processQueue made, started their number so far, deferred
\* the pending setTimeout calls

NetStart == net = NetIdle

SubscriptionIdle == [finalizers |-> <<>>, added |-> <<>>, runs |-> <<>>]
\* new Subscription(): _finalizers = []. added (the values given to add so
\* far) and runs (one record per unsubscribe call) are history

PromiseIdle == [state |-> "pending", value |-> 0, reactions |-> <<>>, early |-> {}]
\* a pending promise nobody has called then on

UnitStart == sbn = SubscriptionIdle /\ promise = PromiseIdle

AppStart == RateStart /\ WsStart /\ NetStart /\ UnitStart

PipeInit ==
    /\ cfg \in PipeConfigs
    /\ tcfg = TimerCall(0, Undefined)
    /\ PipeStart /\ SubjectStart /\ TimerStart /\ AppStart
    /\ calls = 0

PipeNext ==
    \/ Subscribe
    \/ \E s \in DOMAIN subs : ArrayEmit(s)
    \/ \E s \in DOMAIN subs : ArrayComplete(s)
    \/ \E s \in DOMAIN subs : ProducerReturn(s)
    \/ \E s \in DOMAIN subs : ProducerThrow(s)
    \/ \E s \in DOMAIN subs : SubscribeReturn(s)
    \/ \E s \in DOMAIN subs, v \in Values : SourceNext(s, v)
    \/ \E s \in DOMAIN subs : SourceComplete(s)
    \/ \E s \in DOMAIN subs : SourceError(s)
    \/ \E name \in EventNames, args \in EventArgs : FireEvent(name, args)
    \/ \E s \in DOMAIN subs : Unsubscribe(s)

SpecPipe == PipeInit /\ [][PipeNext]_vars

\* ------------------------------------------------------------------------
\* Observable.pipe by itself
\* ------------------------------------------------------------------------
Sources ==
    {fromArrayLike(a) : a \in SeqsUpTo(Values, MaxLen)}
        \cup {SyncSource(a) : a \in SeqsUpTo(Values, MaxLen)}
        \cup {ManualSource}
        \cup {fromEvent(sel) : sel \in {"none", "count"}}

Chains == SeqsUpTo(Operators, MaxOps) \cup {ScenarioPipe.ops}
\* the operator lists given to pipe

PipeCall ==
    /\ piped.result = <<>>
    /\ piped' = [piped EXCEPT !.result = <<Observable_pipe(piped.input, piped.fns)>>]
    /\ UNCHANGED <<cfg, subs, seen, listeners, calls, subjVars, timerVars, appVars>>

PipeAgain(fns) ==
    /\ piped.result # <<>>
    /\ Len(piped.fns) + Len(fns) <= MaxOps + 1
    /\ piped' = [piped EXCEPT !.fns = @ \o fns,
                              !.result = <<Observable_pipe(piped.result[1], fns)>>]
    /\ UNCHANGED <<cfg, subs, seen, listeners, calls, subjVars, timerVars, appVars>>
\* pipe called on what pipe returned: input.pipe(f).pipe(g)

ComposeInit ==
    /\ cfg = pipeFromArray(ManualSource, <<>>)
    /\ tcfg = TimerCall(0, Undefined)
    /\ subs = <<>>
    /\ seen = [j \in 0..Len(cfg.ops) |-> 0]
    /\ listeners = ForeignListeners
    /\ piped \in {[input |-> o, fns |-> fns, result |-> <<>>] : o \in Sources, fns \in Chains}
    /\ SubjectStart /\ TimerStart /\ AppStart
    /\ calls = 0

ComposeNext ==
    \/ PipeCall
    \/ \E fns \in Chains : PipeAgain(fns)

SpecCompose == ComposeInit /\ [][ComposeNext]_vars

\* ------------------------------------------------------------------------
\* Subject
\* ------------------------------------------------------------------------
ObserverKinds == {"plain", "resub"}
\* the observers user code subscribes: "plain" records what it receives;
\* "resub" does the same and, in its next callback, the first time it is
\* called, subscribes a further plain observer to the Subject

NewSubjectSubscriber(kind, callNo) ==
    [isStopped     |-> FALSE,
     kind          |-> kind,
     fired         |-> FALSE,
     regCall       |-> callNo,
     afterComplete |-> subjHist.completed,
     fin           |-> Subscription_add(<<>>, "undefined"),
     unsubs        |-> 0,
     unsubAt       |-> 0,
     torn          |-> 0,
     log           |-> <<>>]
\* isStopped is the Subscriber's field.  History kept for the properties:
\* regCall the number of Subject.next / complete calls started when it
\* registered (callNo: the call in progress, for a subscribe from a callback), afterComplete whether Subject.complete() had been called by
\* then, log the calls its observer received (with the number of the call).
\* fin is its _finalizers after subscribe (Subject._subscribe returns
\* nothing, so subscriber.add got undefined); unsubs counts the
\* unsubscribe() calls on it, unsubAt is the length of log at the first,
\* torn the number of teardown executions

Subject_subscribe_replacing(list, kind, callNo) == <<NewSubjectSubscriber(kind, callNo)>>
\* a subscribe that drops the Subscribers registered before

Subject_subscribe(list, kind, callNo) == Append(list, NewSubjectSubscriber(kind, callNo))
\* Observable.subscribe with _subscribe = subscribers.push: nothing is
\* returned, so no teardown is added

SubjectLoopRuns(i, list) == i <= Len(list)
\* for (const subscriber of this.subscribers): the array iterator reads the
\* array's current length at every step

RECURSIVE Subject_next_from(_, _, _)
Subject_next_from(i, v, st) ==
    IF ~SubjectLoopRuns(i, st.list)
    THEN st
    ELSE LET sub == st.list[i]
         IN  IF Subscriber_forwardsNext(sub.isStopped)
             THEN LET got  == [sub EXCEPT !.log = Append(@, [t |-> "next", v |-> v, call |-> st.call]),
                                         !.fired = TRUE]
                      list == [st.list EXCEPT ![i] = got]
                      st1  == [st EXCEPT
                                 !.list  = IF sub.kind = "resub" /\ ~sub.fired
                                           THEN Subject_subscribe(list, "plain", st.call)
                                           ELSE list,
                                 !.trace = Append(@, [sub |-> i, call |-> st.call])]
                  IN  Subject_next_from(i + 1, v, st1)
             ELSE Subject_next_from(i + 1, v, st)

Subject_complete_each(sub, call) ==
    IF Subscriber_forwardsComplete(sub.isStopped)
    THEN [sub EXCEPT !.isStopped = TRUE,
                     !.log = Append(@, [t |-> "complete", v |-> 0, call |-> call])]
    ELSE sub

SubjectSubscribe(kind) ==
    /\ Len(subscribers) < MaxSubs
    /\ subscribers' = Subject_subscribe(subscribers, kind, subjHist.callNo)
    /\ UNCHANGED <<subjHist, calls, pipeVars, timerVars, appVars>>

SubjectNext(v) ==
    /\ calls < MaxCalls
    /\ LET c  == subjHist.callNo + 1
           st == Subject_next_from(1, v,
                     [list |-> subscribers, call |-> c, trace |-> subjHist.trace])
       IN  /\ subscribers' = st.list
           /\ subjHist' = [subjHist EXCEPT !.callNo = c, !.trace = st.trace]
    /\ calls' = calls + 1
    /\ UNCHANGED <<pipeVars, timerVars, appVars>>

SubjectComplete ==
    /\ calls < MaxCalls
    /\ LET c == subjHist.callNo + 1
       IN  /\ subscribers' = [i \in DOMAIN subscribers |->
                                 Subject_complete_each(subscribers[i], c)]
           /\ subjHist' = [subjHist EXCEPT !.callNo = c, !.completed = TRUE]
    /\ calls' = calls + 1
    /\ UNCHANGED <<pipeVars, timerVars, appVars>>

SubjectUnsubscribe(i) ==
    /\ calls < MaxCalls
    /\ i \in DOMAIN subscribers
    /\ subscribers' = [subscribers EXCEPT
                          ![i].unsubs = @ + 1,
                          ![i].unsubAt = IF subscribers[i].unsubs = 0
                                         THEN Len(subscribers[i].log) ELSE @,
                          ![i].torn = @ + Len(subscribers[i].fin)]
    /\ calls' = calls + 1
    /\ UNCHANGED <<subjHist, pipeVars, timerVars, appVars>>
\* the user calls unsubscribe() on the Subscriber subject.subscribe
\* returned, which is the Subscriber in the list: its finalizers run; the
\* Subject's list is not touched

SubjectInit ==
    /\ cfg = pipeFromArray(ManualSource, <<>>)
    /\ tcfg = TimerCall(0, Undefined)
    /\ PipeStart /\ SubjectStart /\ TimerStart /\ AppStart
    /\ calls = 0

SubjectNextRel ==
    \/ \E kind \in ObserverKinds : SubjectSubscribe(kind)
    \/ \E v \in Values : SubjectNext(v)
    \/ SubjectComplete
    \/ \E i \in 1..MaxSubs : SubjectUnsubscribe(i)

SpecSubject == SubjectInit /\ [][SubjectNextRel]_vars

\* ------------------------------------------------------------------------
\* Properties of the Subject model (SpecSubject)
\* ------------------------------------------------------------------------
\* C2: a subscriber that subscribes after subject.complete() was called
\* receives no further events: no later subject.next(v) and no later
\* subject.complete() reaches its observer.
C2_LateSubscriberSilent ==
    \A i \in DOMAIN subscribers :
        subscribers[i].afterComplete => subscribers[i].log = <<>>

\* C3: a value passed to subject.next(v) is delivered only to subscribers
\* registered before that call started (also when a subscriber's next callback
\* subscribes during the broadcast), and to those in registration order.
C3_OnlyEarlierSubscribers ==
    /\ \A i \in DOMAIN subscribers : \A k \in DOMAIN subscribers[i].log :
          subscribers[i].log[k].t = "next" =>
              subscribers[i].regCall < subscribers[i].log[k].call
    /\ \A a, b \in DOMAIN subjHist.trace :
          (a < b /\ subjHist.trace[a].call = subjHist.trace[b].call) =>
              subjHist.trace[a].sub < subjHist.trace[b].sub

\* Without a subscribe from inside a callback the first part of C3 holds, and
\* the order of delivery holds always.
SubjectEarlierUnlessReentrant ==
    /\ \A i \in DOMAIN subscribers : \A k \in DOMAIN subscribers[i].log :
          subscribers[i].log[k].t = "next" =>
              subscribers[i].regCall <= subscribers[i].log[k].call
    /\ (\A i \in DOMAIN subscribers : subscribers[i].kind = "plain") =>
          \A i \in DOMAIN subscribers : \A k \in DOMAIN subscribers[i].log :
              subscribers[i].log[k].t = "next" =>
                  subscribers[i].regCall < subscribers[i].log[k].call
    /\ \A a, b \in DOMAIN subjHist.trace :
          (a < b /\ subjHist.trace[a].call = subjHist.trace[b].call) =>
              subjHist.trace[a].sub < subjHist.trace[b].sub

RegisteredStay ==
    /\ Len(subscribers') >= Len(subscribers)
    /\ \A i \in DOMAIN subscribers :
          /\ subscribers'[i].kind = subscribers[i].kind
          /\ subscribers'[i].regCall = subscribers[i].regCall
          /\ Len(subscribers'[i].log) >= Len(subscribers[i].log)
          /\ SubSeq(subscribers'[i].log, 1, Len(subscribers[i].log)) = subscribers[i].log
\* after the step every Subscriber of the list is still at its place (the
\* kind of its observer, the call it registered in and the log it has so
\* far tell them apart), and the list is no shorter

\* C33: the Subject's subscriber list is append-only: after any sequence of
\* subscribe, next, complete and unsubscribe, every Subscriber that ever
\* registered is still in the list, in registration order; the list is never
\* cleared or shortened.
C33_ListAppendOnly == [][RegisteredStay]_vars

C33_Witness ==
    /\ Len(subscribers) = 2
    /\ subjHist.completed
    /\ subscribers[1].unsubs > 0
    /\ subscribers[1].regCall < subscribers[2].regCall

\* C34: after a subscriber of a Subject has called unsubscribe() on its
\* subscription, no later subject.next(v) or subject.complete() is delivered
\* to its observer.
C34_SilentAfterUnsubscribe ==
    \A i \in DOMAIN subscribers :
        subscribers[i].unsubs > 0 => Len(subscribers[i].log) = subscribers[i].unsubAt

UnsubscribeChangesNothing ==
    \A i \in DOMAIN subscribers :
        /\ subscribers[i].torn = 0
        /\ subscribers[i].fin = <<>>
\* what holds instead: no Subscriber of a Subject ever has a teardown, so
\* unsubscribe runs none

\* ------------------------------------------------------------------------
\* Scheduler, AsyncAction, timer
\* ------------------------------------------------------------------------
Truthy(x) == x.type = "scheduler" \/ (x.type = "number" /\ x.n # 0)

timer_intervalDuration(intervalOrScheduler) ==
    IF Truthy(intervalOrScheduler) /\ intervalOrScheduler.type = "number"
    THEN intervalOrScheduler.n
    ELSE -1

timer_reschedules_nonZero(intervalDuration) == intervalDuration # 0
\* the work function testing the interval against 0 only

timer_reschedules(intervalDuration) == intervalDuration > 0

Scheduler(schedulerActionCtor) == [schedulerActionCtor |-> schedulerActionCtor]

asyncScheduler == Scheduler("AsyncAction")
\* the default scheduler: a Scheduler bound to AsyncAction

timer_scheduler(intervalOrScheduler) ==
    IF Truthy(intervalOrScheduler) /\ intervalOrScheduler.type = "scheduler"
    THEN Scheduler("AsyncAction")
    ELSE asyncScheduler
\* a Scheduler passed as second argument replaces the default; AsyncAction is
\* the only action class there is

interval_dueNow(period) == TimerArgs(0, Number(period))
\* an interval whose first tick is due at once

interval(period) == TimerArgs(period, Number(period))
\* return timer(period, period, scheduler)

ObservableOf(c) ==
    IF c.call = "interval" THEN interval(c.a1) ELSE TimerArgs(c.a1, c.a2)

ReferenceOf(c) == TimerArgs(c.a1, Number(c.a1))
\* timer(period, period), written out next to interval(period)

TimerWork == [kind |-> "timer", limit |-> 0, delay |-> 0]
\* the function timer hands to scheduler.schedule

CountWork(limit, delay) == [kind |-> "count", limit |-> limit, delay |-> delay]
\* function (state) { if (state < limit) this.schedule(state + 1, delay) }

NewAsyncAction(work) ==
    [id |-> 0, state |-> 0, delay |-> 0, padding |-> FALSE, work |-> work,
     runs |-> 0, asked |-> 0, ret |-> "none"]
\* _id = null is 0; a timer handle is a positive number. _state = undefined or
\* null is 0 (timer's work function never reads it). runs counts the calls of
\* the work function, asked the timers requested, and ret is what
\* Scheduler.schedule gave back to the caller

clearInterval(live, id) == {t \in live : t.h # id}

AsyncAction_recycledAsyncId_handleOnly(a, st) == [st EXCEPT !.act.id = 0]
\* the handle forgotten, the platform's timer left running

AsyncAction_recycledAsyncId(a, st) ==
    [st EXCEPT !.tm.live = clearInterval(@, st.act.id), !.act.id = 0]

FreshHandle(a, asked) == a + MaxSubs * asked
\* setInterval returns a handle no other timer has; which number it is does
\* not matter, so it is made of the action and of how many it asked for

AsyncAction_requestAsyncId(a, st) ==
    LET h == FreshHandle(a, st.act.asked)
    IN  [st EXCEPT !.tm.live = @ \cup {[h |-> h, action |-> a, delay |-> st.act.delay]},
                   !.tm.made = @ + 1,
                   !.act.asked = @ + 1,
                   !.act.id  = h]
\* setInterval(this.execute, this._delay)

AsyncAction_schedule(a, state, delay, st) ==
    LET st1 == [st EXCEPT !.act.delay = delay, !.act.state = state]
        st2 == IF st1.act.id # 0 THEN AsyncAction_recycledAsyncId(a, st1) ELSE st1
        st3 == [st2 EXCEPT !.act.padding = TRUE]
    IN  AsyncAction_requestAsyncId(a, st3)
\* st holds the action a (act) and the platform's timers (tm)

AsyncAction_recycles_always(act) == act.id # 0
\* execute dropping its timer after every run of the work function

AsyncAction_recycles(act) == act.id # 0 /\ ~act.padding
\* if (this._id && !this._padding)

Scheduler_schedule(scheduler, a, work, delay, state, tm) ==
    LET st == CASE scheduler.schedulerActionCtor = "AsyncAction" ->
                   AsyncAction_schedule(a, state, delay,
                                        [act |-> NewAsyncAction(work), tm |-> tm])
    IN  [st     |-> [st EXCEPT !.act.ret = "undefined"],
         return |-> "undefined"]
\* return new this._schedulerActionCtor(work).schedule(state, delay): what
\* AsyncAction.schedule returns, which is nothing

NewTimerSubscriber(obs, via) ==
    [isStopped |-> FALSE, fin |-> <<>>, log |-> <<>>, n |-> 0, obs |-> obs, via |-> via,
     unsubs |-> 0, unsubAt |-> 0, torn |-> 0]
\* n is the counter of timer's producer; obs is the Observable subscribed to
\* and via tells whether it is the expression under test or its reference.
\* History: unsubs the number of unsubscribe() calls, unsubAt the length of
\* log at the first, torn the number of teardown executions

TickIdle == tick.pc = "idle"

SubscribableVia ==
    IF tcfg.call = "interval" THEN {"test", "reference"} ELSE {"test"}

TimerSubscribe ==
    /\ TickIdle
    /\ Len(tsubs) < MaxSubs
    /\ \E via \in SubscribableVia :
        LET a   == Len(tsubs) + 1
            obs == IF via = "test" THEN ObservableOf(tcfg) ELSE ReferenceOf(tcfg)
            r   == Scheduler_schedule(timer_scheduler(obs.intervalOrScheduler), a,
                                      TimerWork, obs.dueTime, 0, timers)
        IN  /\ tsubs' = Append(tsubs,
                           [NewTimerSubscriber(obs, via) EXCEPT
                                !.fin = Subscription_add(@, r.return)])
            /\ actions' = Append(actions, r.st.act)
            /\ timers' = r.st.tm
    /\ UNCHANGED <<tcfg, tick, calls, pipeVars, subjVars, appVars>>

TickStart(t) ==
    /\ TickIdle
    /\ t \in timers.live
    /\ actions[t.action].runs < MaxTicks + actions[t.action].work.limit
    /\ actions' = [actions EXCEPT ![t.action].padding = FALSE]
    /\ tick' = [pc |-> "work", action |-> t.action, asked |-> actions[t.action].asked]
    /\ UNCHANGED <<tcfg, tsubs, timers, calls, pipeVars, subjVars, appVars>>
\* the platform calls execute for a live timer: this._padding = false. The
\* tick remembers how many timers the action had asked for when it began

TickWork ==
    /\ tick.pc = "work"
    /\ actions[tick.action].work.kind = "timer"
    /\ LET a    == tick.action
           sub  == tsubs[a]
           dur  == timer_intervalDuration(sub.obs.intervalOrScheduler)
           act  == [actions[a] EXCEPT !.runs = @ + 1]
           sub1 == IF Subscriber_forwardsNext(sub.isStopped)
                   THEN [sub EXCEPT !.log = Append(@, Ev("next", sub.n))]
                   ELSE sub
           sub2 == [sub1 EXCEPT !.n = @ + 1]
       IN  IF timer_reschedules(dur)
           THEN LET st == AsyncAction_schedule(a, 0, dur, [act |-> act, tm |-> timers])
                IN  /\ tsubs' = [tsubs EXCEPT ![a] = sub2]
                    /\ actions' = [actions EXCEPT ![a] = st.act]
                    /\ timers' = st.tm
           ELSE /\ tsubs' = [tsubs EXCEPT ![a] =
                                IF Subscriber_forwardsComplete(sub2.isStopped)
                                THEN [sub2 EXCEPT !.isStopped = TRUE,
                                                  !.log = Append(@, Ev("complete", 0))]
                                ELSE sub2]
                /\ actions' = [actions EXCEPT ![a] = act]
                /\ UNCHANGED timers
    /\ tick' = [tick EXCEPT !.pc = "after"]
    /\ UNCHANGED <<tcfg, calls, pipeVars, subjVars, appVars>>
\* this._work.call(this, this._state), the work function being timer's

TickEnd ==
    /\ tick.pc = "after"
    /\ LET a  == tick.action
           st == [act |-> actions[a], tm |-> timers]
           st1 == IF AsyncAction_recycles(st.act)
                  THEN AsyncAction_recycledAsyncId(a, st)
                  ELSE st
       IN  /\ actions' = [actions EXCEPT ![a] = st1.act]
           /\ timers' = st1.tm
    /\ tick' = [pc |-> "idle", action |-> 0, asked |-> 0]
    /\ UNCHANGED <<tcfg, tsubs, calls, pipeVars, subjVars, appVars>>

Periods == {0, 50}

TimerConfigs ==
    {TimerCall(d, i) :
        d \in {0, 100},
        i \in {Undefined, SchedulerObject, Number(0), Number(-5), Number(50)}}
      \cup {IntervalCall(p) : p \in Periods}

TimerInit ==
    /\ cfg = pipeFromArray(ManualSource, <<>>)
    /\ tcfg \in TimerConfigs
    /\ PipeStart /\ SubjectStart /\ TimerStart /\ AppStart
    /\ calls = 0

TimerNext ==
    \/ TimerSubscribe
    \/ \E t \in timers.live : TickStart(t)
    \/ TickWork
    \/ TickEnd

SpecTimer == TimerInit /\ [][TimerNext]_vars

\* ------------------------------------------------------------------------
\* Properties of the timer model (SpecTimer)
\* ------------------------------------------------------------------------
OneShot ==
    /\ tcfg.call = "timer"
    /\ tcfg.a2.type = "number" => tcfg.a2.n <= 0
\* timer was called without an interval, or with a non-positive one

LiveTimersOf(a) == {t \in timers.live : t.action = a}

\* C10: timer(dueTime) with no interval, or with a non-positive one, delivers
\* nothing during subscribe(); its first tick delivers next(0) once and then
\* complete once; no later tick delivers anything (after that tick the
\* action holds no timer, and the work function has run once).
C10_OneShotTimer ==
    \A s \in DOMAIN tsubs :
        OneShot =>
            /\ tsubs[s].n = 0 => tsubs[s].log = <<>>
            /\ tsubs[s].n >= 1 => tsubs[s].log = <<Ev("next", 0), Ev("complete", 0)>>
            /\ tsubs[s].n <= 1
            /\ (tsubs[s].n >= 1 /\ TickIdle) => LiveTimersOf(s) = {}

C10_Witness ==
    \E s \in DOMAIN tsubs :
        /\ tcfg = TimerCall(100, Number(-5))
        /\ tsubs[s].log = <<Ev("next", 0), Ev("complete", 0)>>
        /\ TickIdle
        /\ actions[s].id = 0
        /\ \E r \in DOMAIN tsubs : tsubs[r].n = 0 /\ tsubs[r].log = <<>>

TickOf(a) == \E t \in timers.live : t.action = a /\ TickStart(t)
\* the platform fires a timer of action a

TimerFairness ==
    /\ WF_vars(TickWork)
    /\ WF_vars(TickEnd)
    /\ \A a \in 1..MaxSubs : WF_vars(TickOf(a))
\* execute runs to its end once started, and the platform fires every timer
\* that stays live

SpecTimerFair == TimerInit /\ [][TimerNext]_vars /\ TimerFairness

Periodic ==
    /\ tcfg.call = "timer"
    /\ tcfg.a2.type = "number"
    /\ tcfg.a2.n > 0
\* timer was called with a positive interval

Naturals_upTo(n) == [i \in 1..n |-> Ev("next", i - 1)]
\* next(0), next(1), ..., next(n - 1)

C11_CountsUp ==
    \A s \in DOMAIN tsubs :
        Periodic => tsubs[s].log = Naturals_upTo(actions[s].runs)

DeliveredUpTo(s, n) ==
    IF s \in DOMAIN tsubs THEN tsubs[s].log = Naturals_upTo(n) ELSE FALSE
\* subscriber s's observer has been called with 0, ..., n - 1, in that order

C11_EveryNumberComes ==
    \A s \in 1..MaxSubs :
        (Periodic /\ s \in DOMAIN tsubs) ~> DeliveredUpTo(s, MaxTicks)

\* C11: timer(dueTime, interval) with interval > 0 delivers 0, 1, 2, ... one
\* per run of the work function, in order, without gap or repeat, and never
\* complete; with the platform firing its timers, every k below the bound on
\* ticks is eventually delivered to every subscriber.
C11_PeriodicTimer == []C11_CountsUp /\ C11_EveryNumberComes

C11_Witness ==
    \E s \in DOMAIN tsubs :
        /\ tcfg = TimerCall(100, Number(50))
        /\ tsubs[s].log = <<Ev("next", 0), Ev("next", 1), Ev("next", 2)>>
        /\ actions[s].delay = 50
        /\ LiveTimersOf(s) # {}

TimerDelays(a) == {t.delay : t \in LiveTimersOf(a)}
\* the delays of the platform timers that will fire action a

SameTimerState(s, r) ==
    /\ tsubs[s].log = tsubs[r].log
    /\ tsubs[s].isStopped = tsubs[r].isStopped
    /\ tsubs[s].fin = tsubs[r].fin
    /\ actions[s].delay = actions[r].delay
    /\ actions[s].padding = actions[r].padding
    /\ (actions[s].id = 0) = (actions[r].id = 0)
    /\ TimerDelays(s) = TimerDelays(r)
\* what an observer and the platform can tell of subscriptions s and r

\* C12: a subscription to interval(period) and one to timer(period, period)
\* that have had the same number of ticks are in the same state: same calls
\* of the observer, same pending timer with the same delay. Before its
\* first tick interval has delivered nothing, and that first tick is one
\* period away.
C12_IntervalAsTimer ==
    tcfg.call = "interval" =>
        \A s \in DOMAIN tsubs :
            tsubs[s].via = "test" =>
                /\ actions[s].runs = 0 =>
                      /\ tsubs[s].log = <<>>
                      /\ TimerDelays(s) = {tcfg.a1}
                /\ \A r \in DOMAIN tsubs :
                      (/\ tsubs[r].via = "reference"
                       /\ actions[r].runs = actions[s].runs
                       /\ TickIdle) => SameTimerState(s, r)

C12_Witness ==
    \E s, r \in DOMAIN tsubs :
        /\ tcfg = IntervalCall(50)
        /\ tsubs[s].via = "test"
        /\ tsubs[r].via = "reference"
        /\ TickIdle
        /\ actions[s].runs = 2
        /\ actions[r].runs = 2
        /\ tsubs[s].log = <<Ev("next", 0), Ev("next", 1)>>

\* ------------------------------------------------------------------------
\* A Scheduler used directly, with a work function that counts
\* ------------------------------------------------------------------------
ScheduleCall(work, delay, state) ==
    [call |-> "schedule", work |-> work, delay |-> delay, state |-> state]
\* new Scheduler(AsyncAction).schedule(work, delay, state)

ScenarioCall == ScheduleCall(CountWork(5, 500), 0, 0)
\* a work function that calls this.schedule(state + 1, 500) while state < 5,
\* scheduled with state 0

SchedulerSchedule ==
    /\ TickIdle
    /\ Len(actions) < MaxSubs
    /\ LET a == Len(actions) + 1
           r == Scheduler_schedule(Scheduler("AsyncAction"), a, tcfg.work,
                                   tcfg.delay, tcfg.state, timers)
       IN  /\ actions' = Append(actions, r.st.act)
           /\ timers' = r.st.tm
    /\ UNCHANGED <<tcfg, tsubs, tick, calls, pipeVars, subjVars, appVars>>

CountTick ==
    /\ tick.pc = "work"
    /\ actions[tick.action].work.kind = "count"
    /\ LET a   == tick.action
           act == [actions[a] EXCEPT !.runs = @ + 1]
       IN  IF act.state < act.work.limit
           THEN LET st == AsyncAction_schedule(a, act.state + 1, act.work.delay,
                                               [act |-> act, tm |-> timers])
                IN  /\ actions' = [actions EXCEPT ![a] = st.act]
                    /\ timers' = st.tm
           ELSE /\ actions' = [actions EXCEPT ![a] = act]
                /\ UNCHANGED timers
    /\ tick' = [tick EXCEPT !.pc = "after"]
    /\ UNCHANGED <<tcfg, tsubs, calls, pipeVars, subjVars, appVars>>
\* this._work.call(this, this._state), the work function being the counting one

SchedConfigs ==
    {ScheduleCall(CountWork(limit, delay), d0, state) :
        limit \in 0..5, delay \in {0, 500}, d0 \in {0, 1000}, state \in {0, 2}}

SchedInit ==
    /\ cfg = pipeFromArray(ManualSource, <<>>)
    /\ tcfg \in SchedConfigs
    /\ PipeStart /\ SubjectStart /\ TimerStart /\ AppStart
    /\ calls = 0

SchedNext ==
    \/ SchedulerSchedule
    \/ \E t \in timers.live : TickStart(t)
    \/ CountTick
    \/ TickEnd

SpecSched == SchedInit /\ [][SchedNext]_vars

SchedFairness ==
    /\ WF_vars(CountTick)
    /\ WF_vars(TickEnd)
    /\ \A a \in 1..MaxSubs : WF_vars(TickOf(a))
\* execute runs to its end once started, and the platform fires every timer
\* that stays live

SpecSchedFair == SchedInit /\ [][SchedNext]_vars /\ SchedFairness

ActionSchedule(a) ==
    /\ TickIdle /\ calls < MaxCalls
    /\ a \in DOMAIN actions
    /\ LET st == AsyncAction_schedule(a, tcfg.state, tcfg.delay,
                                       [act |-> actions[a], tm |-> timers])
       IN  /\ actions' = [actions EXCEPT ![a] = st.act]
           /\ timers' = st.tm
    /\ calls' = calls + 1
    /\ UNCHANGED <<tcfg, tsubs, tick, pipeVars, subjVars, appVars>>
\* action.schedule(state, delay) called from outside execute, by code that
\* made the action itself and kept it

ActionNext ==
    \/ SchedulerSchedule
    \/ \E t \in timers.live : TickStart(t)
    \/ CountTick
    \/ TickEnd
    \/ \E a \in 1..MaxSubs : ActionSchedule(a)

ActionConfigs ==
    {ScheduleCall(CountWork(limit, 500), 0, 0) : limit \in 0..1}

ActionInit ==
    /\ cfg = pipeFromArray(ManualSource, <<>>)
    /\ tcfg \in ActionConfigs
    /\ PipeStart /\ SubjectStart /\ TimerStart /\ AppStart
    /\ calls = 0

SpecAction == ActionInit /\ [][ActionNext]_vars

\* ------------------------------------------------------------------------
\* Properties of the scheduler model (SpecSched, SpecSchedFair, SpecAction)
\* ------------------------------------------------------------------------
Cancelled(a) ==
    IF a \in DOMAIN actions
    THEN actions[a].id = 0 /\ LiveTimersOf(a) = {} /\ tick.action # a
    ELSE FALSE
\* action a holds no handle, the platform holds no timer of it, and it is not
\* in the middle of execute

\* C14 as stated: in the scenario the work function has been called exactly
\* 5 times when the action stops asking for a continuation.
C14_FiveTicks ==
    \A a \in DOMAIN actions :
        (tcfg = ScenarioCall /\ Cancelled(a)) => actions[a].runs = 5

\* C14: in the scenario the work function is called exactly 6 times, once
\* for each state 0..5; the first five calls each ask for one continuation
\* (six timers in all, the first from Scheduler.schedule), the sixth asks for
\* none and leaves the action with its timer cancelled.
C14_SixTicks ==
    \A a \in DOMAIN actions :
        tcfg = ScenarioCall =>
            /\ actions[a].runs <= 6
            /\ actions[a].asked <= 6
            /\ tick.action # a =>
                  actions[a].state = actions[a].runs - (IF Cancelled(a) THEN 1 ELSE 0)
            /\ Cancelled(a) <=>
                  (tick.action # a /\ actions[a].runs = 6 /\ actions[a].asked = 6)

C14_Witness ==
    \E a \in DOMAIN actions :
        /\ tcfg = ScenarioCall
        /\ Cancelled(a)
        /\ actions[a].runs = 6
        /\ actions[a].state = 5

C15_EventuallyCancelled ==
    \A a \in 1..MaxSubs : (a \in DOMAIN actions) ~> Cancelled(a)

C15_NeverRunAgain ==
    \A a \in DOMAIN actions :
        Cancelled(a) =>
            /\ actions'[a].runs = actions[a].runs
            /\ actions'[a].id = 0
            /\ {t \in timers'.live : t.action = a} = {}

C19_ReturnsAction ==
    \A a \in DOMAIN actions : actions[a].ret = "action"

Rearmed == actions[tick.action].asked > tick.asked
\* the work function of the tick in progress has called schedule()

PaddingClearedForWork ==
    tick.pc = "work" => ~actions[tick.action].padding

TickEndStep ==
    (tick.pc = "after" /\ tick'.pc = "idle") =>
        LET a == tick.action
        IN  /\ Rearmed =>
                  /\ timers'.live = timers.live
                  /\ actions'[a].id = actions[a].id
                  /\ \E t \in timers'.live : t.action = a /\ t.h = actions'[a].id
            /\ ~Rearmed =>
                  /\ actions'[a].id = 0
                  /\ {t \in timers'.live : t.action = a} = {}

\* C27: during a tick of an AsyncAction the re-arm flag is false when the
\* work function starts; when execute ends, the action's timer is cancelled
\* exactly if the work function did not call schedule() in that tick, and a
\* timer the work function armed is still live and held by the action.
C27_CancelledUnlessRearmed == []PaddingClearedForWork /\ [][TickEndStep]_vars

C27_Witness ==
    \E a, b \in DOMAIN actions :
        /\ TickIdle /\ calls = 0
        /\ actions[a].runs = 1 /\ actions[a].asked = 2
        /\ \E t \in timers.live : t.action = a /\ t.h = actions[a].id
        /\ actions[b].runs = 2 /\ Cancelled(b)

\* C28: an AsyncAction has at most one live timer at any time, whatever the
\* order of schedule() calls (from outside and from the work function) and
\* ticks, and no timer is left running that the action no longer holds.
C28_OneLiveTimer ==
    \A a \in DOMAIN actions :
        /\ Cardinality(LiveTimersOf(a)) <= 1
        /\ \A t \in LiveTimersOf(a) : t.h = actions[a].id

C28_Witness ==
    \E a \in DOMAIN actions :
        /\ calls >= 2
        /\ actions[a].runs >= 2
        /\ actions[a].asked >= 4
        /\ Cardinality(LiveTimersOf(a)) = 1

\* ------------------------------------------------------------------------
\* Properties of the pipe model (SpecPipe)
\* ------------------------------------------------------------------------
Count(log, t) == Len(SelectSeq(log, LAMBDA e : e.t = t))

NextValues(log) ==
    LET nx == SelectSeq(log, LAMBDA e : e.t = "next")
    IN  [i \in 1..Len(nx) |-> nx[i].v]

NoNextAfterComplete(log) ==
    \A a, b \in 1..Len(log) : (log[a].t = "complete" /\ a < b) => log[b].t # "next"

LastOp == cfg.ops[K]

EndsWith(type) == K >= 1 /\ LastOp.type = type

Returned(s) == subs[s].pc = "returned"

\* C1: of(1,2,3,4,5).pipe(map(x=>x*2), filter(x=>x>4), map(x=>x+1)) gives the
\* collecting observer next 7, 9, 11 in that order and then complete exactly
\* once.
C1_ScenarioLog ==
    \A s \in DOMAIN subs :
        (cfg = ScenarioPipe /\ Returned(s)) =>
            subs[s].log = <<Ev("next", 7), Ev("next", 9), Ev("next", 11), Ev("complete", 0)>>

\* What the scenario does deliver: the three values, and no complete.
ScenarioDelivers ==
    \A s \in DOMAIN subs :
        (cfg = ScenarioPipe /\ Returned(s)) =>
            subs[s].log = <<Ev("next", 7), Ev("next", 9), Ev("next", 11)>>

\* C4: once complete() has run on a Subscriber, no later next(value) is
\* forwarded to its destination's next, whatever next / error / complete /
\* unsubscribe calls follow.
C4_NoNextAfterComplete ==
    \A s \in DOMAIN subs : ~subs[s].late

C4_Witness ==
    \E s \in DOMAIN subs : \E j \in Levels :
        /\ subs[s].ran[j]
        /\ Len(subs[s].inn[j]) > Len(subs[s].out[j])
        /\ subs[s].torn > 0

\* C5: for n > 0 a subscription to O.pipe(take(n)) receives at most n values;
\* once O has emitted n values the downstream complete has been called exactly
\* once, and no next follows that complete although O keeps emitting.
C5_TakeAtMostN ==
    \A s \in DOMAIN subs :
        (EndsWith("take") /\ LastOp.count > 0) =>
            /\ Len(NextValues(subs[s].log)) <= LastOp.count
            /\ Count(subs[s].log, "complete") <= 1
            /\ Len(subs[s].out[K - 1]) >= LastOp.count => Count(subs[s].log, "complete") = 1
            /\ NoNextAfterComplete(subs[s].log)

C5_Witness ==
    \E s \in DOMAIN subs :
        /\ EndsWith("take") /\ LastOp.count = 2
        /\ Len(subs[s].out[K - 1]) > LastOp.count
        /\ Len(NextValues(subs[s].log)) = LastOp.count
        /\ Count(subs[s].log, "complete") = 1

\* C6: for n <= 0 a subscription to O.pipe(take(n)) never receives next and
\* never receives complete, whatever O emits and whether or not O completes.
C6_TakeNonPositive ==
    \A s \in DOMAIN subs :
        (EndsWith("take") /\ LastOp.count <= 0) =>
            Count(subs[s].log, "next") = 0 /\ Count(subs[s].log, "complete") = 0

C6_Witness ==
    \E s \in DOMAIN subs :
        /\ EndsWith("take") /\ LastOp.count = 0
        /\ Len(subs[s].out[K - 1]) >= 2
        /\ subs[s].ran[K - 1]
        /\ subs[s].log = <<>>

\* C7: O.pipe(filter(P)) delivers exactly the values of O for which P holds,
\* in O's order.
C7_FilterSubsequence ==
    \A s \in DOMAIN subs :
        /\ \A k \in 1..K :
              cfg.ops[k].type = "filter" =>
                  subs[s].inn[k] =
                      SelectSeq(subs[s].out[k - 1], LAMBDA v : Predicate(cfg.ops[k].p, v))
        /\ EndsWith("filter") =>
              NextValues(subs[s].log) =
                  SelectSeq(subs[s].out[K - 1], LAMBDA v : Predicate(LastOp.p, v))

C7_Witness ==
    \E s \in DOMAIN subs :
        /\ EndsWith("filter")
        /\ Len(subs[s].log) >= 2
        /\ Len(subs[s].out[K - 1]) > Len(subs[s].log)

\* C8: O.pipe(map(F)) delivers F(v) for each value v of O: as many emissions,
\* in the same order.
C8_MapEach ==
    \A s \in DOMAIN subs :
        /\ \A k \in 1..K :
              cfg.ops[k].type = "map" =>
                  subs[s].inn[k] =
                      [i \in 1..Len(subs[s].out[k - 1]) |->
                          Project(cfg.ops[k].f, subs[s].out[k - 1][i])]
        /\ EndsWith("map") =>
              NextValues(subs[s].log) =
                  [i \in 1..Len(subs[s].out[K - 1]) |->
                      Project(LastOp.f, subs[s].out[K - 1][i])]

C8_Witness ==
    \E s \in DOMAIN subs :
        /\ EndsWith("map") /\ LastOp.f = "double"
        /\ NextValues(subs[s].log) = <<4, 10>>

\* C9: subscribing to fromArrayLike(A) delivers A[0..length-1] in index order
\* and then one complete, all of it before subscribe() returns: from the
\* return on the observer has received exactly that, and before it a prefix.
ArrayLog(arrayLike, n) == [i \in 1..n |-> Ev("next", arrayLike[i])]

C9_ArraySynchronous ==
    \A s \in DOMAIN subs :
        (cfg.kind = "array" /\ K = 0) =>
            /\ subs[s].pc = "producing" => subs[s].log = ArrayLog(cfg.arr, subs[s].i)
            /\ subs[s].pc # "producing" =>
                  subs[s].log = ArrayLog(cfg.arr, Len(cfg.arr)) \o <<Ev("complete", 0)>>

C9_Witness ==
    \E s \in DOMAIN subs :
        /\ cfg.kind = "array" /\ K = 0 /\ Len(cfg.arr) = 2
        /\ Returned(s)
        /\ subs[s].log = <<Ev("next", cfg.arr[1]), Ev("next", cfg.arr[2]), Ev("complete", 0)>>
        /\ calls > 0

\* C16 as stated: however often unsubscribe() is called, each registered
\* teardown has run at most once.
C16_TeardownOnce ==
    \A s \in DOMAIN subs : subs[s].torn <= Len(subs[s].fin[K])

Thrown(s) == subs[s].pc = "thrown"

\* C17: when the producer throws during subscribe(), subscribe() does not
\* return a Subscriber: the exception reaches its caller. The observer's
\* error is not called, no Subscriber of the chain has a teardown, and what
\* the observer received before the throw stays as it was delivered.
C17_ProducerThrows ==
    \A s \in DOMAIN subs :
        cfg.kind = "throwing" =>
            /\ subs[s].pc \in {"producing", "thrown"}
            /\ Count(subs[s].log, "error") = 0
            /\ \A j \in Levels : subs[s].fin[j] = <<>>
            /\ subs[s].torn = 0
            /\ Thrown(s) => subs[s].i = Len(cfg.arr)

C17_Witness ==
    \E s \in DOMAIN subs :
        /\ cfg = pipeFromArray(ThrowingSource(<<2, 5>>), <<>>)
        /\ Thrown(s)
        /\ subs[s].log = <<Ev("next", 2), Ev("next", 5)>>
        /\ s > 1

\* C18: a producer that calls next synchronously, directly subscribed: each
\* value is with the observer as soon as next was called with it, so when
\* subscribe() returns the observer has received all of them, in the order
\* of the calls.
C18_SynchronousDelivery ==
    \A s \in DOMAIN subs :
        (cfg.kind \in {"sync", "array"} /\ K = 0) =>
            /\ NextValues(subs[s].log) = SubSeq(cfg.arr, 1, subs[s].i)
            /\ subs[s].inn[0] = NextValues(subs[s].log)
            /\ subs[s].pc \in {"produced", "returned"} =>
                  NextValues(subs[s].log) = cfg.arr

C18_Witness ==
    \E s \in DOMAIN subs :
        /\ cfg = pipeFromArray(SyncSource(<<5, 2>>), <<>>)
        /\ subs[s].pc = "produced"
        /\ subs[s].log = <<Ev("next", 5), Ev("next", 2)>>

ListenersOf(s) == SelectSeq(listeners, LAMBDA l : l.handler = s)

\* C13: for fromEvent(target, "x") subscribed directly, a subscription has
\* exactly one listener on the target until its teardown runs and none
\* after; the listeners of others (other subscriptions, other code) stay;
\* and once the teardown has run the observer is not called again, whatever
\* events fire.
C13_OneListener ==
    (cfg.kind = "event" /\ K = 0) =>
        /\ \A s \in DOMAIN subs :
              /\ subs[s].torn = 0 => ListenersOf(s) = <<[name |-> "x", handler |-> s]>>
              /\ subs[s].torn > 0 => ListenersOf(s) = <<>>
              /\ subs[s].torn > 0 => Len(subs[s].log) = subs[s].tornAt
        /\ ListenersOf(0) = ForeignListeners
        /\ \A i \in DOMAIN listeners : listeners[i].handler \in {0} \cup DOMAIN subs

C13_Witness ==
    \E s, r \in DOMAIN subs :
        /\ cfg.kind = "event" /\ K = 0
        /\ s < r
        /\ subs[s].torn = 1
        /\ subs[s].log = <<>>
        /\ Len(subs[r].log) > 0
        /\ ListenersOf(r) # <<>>

HasTake == \E j \in 1..K : cfg.ops[j].type = "take"

SameOutcome(s, r) ==
    /\ subs[s].log = subs[r].log
    /\ subs[s].stopped = subs[r].stopped
    /\ subs[s].fin = subs[r].fin

\* C21: Observables are cold: every subscribe() runs the producer once with
\* a Subscriber of its own, and what one subscription receives, its
\* isStopped flags and its teardown list do not depend on the other
\* subscriptions of the same Observable: for a producer that emits the same
\* values to every Subscriber, all subscriptions end in the same state.
C21_ColdSubscriptions ==
    cfg.kind \in {"array", "sync"} =>
        \A s, r \in DOMAIN subs : (Returned(s) /\ Returned(r)) => SameOutcome(s, r)

\* The same without take in the chain.
ColdWithoutTake == ~HasTake => C21_ColdSubscriptions

SourceCompleted(s) == subs[s].completeCalls[0] > 0

SourceErrored(s) == subs[s].errorCalls[0] > 0

\* C25: on a subscription to O.pipe(map(f)) or O.pipe(filter(p)), a complete
\* or an error the source sends reaches the downstream observer.
C25_TerminalsPassed ==
    \A s \in DOMAIN subs :
        (K = 1 /\ LastOp.type \in {"map", "filter"}) =>
            /\ SourceCompleted(s) => Count(subs[s].log, "complete") = 1
            /\ SourceErrored(s) => Count(subs[s].log, "error") = subs[s].errorCalls[0]

\* Neither reaches the observer behind map or filter.
TerminalsDropped ==
    \A s \in DOMAIN subs :
        (K = 1 /\ LastOp.type \in {"map", "filter"}) =>
            Count(subs[s].log, "complete") = 0 /\ Count(subs[s].log, "error") = 0

\* C26: every subscription to source.pipe(take(n)), n > 0, counts from 0: for
\* a source of at least n values each subscription, the second like the
\* first, receives the first n values and then complete.
C26_TakeCountsFromZero ==
    (cfg.kind = "array" /\ K = 1 /\ LastOp.type = "take"
        /\ LastOp.count > 0 /\ Len(cfg.arr) >= LastOp.count) =>
        \A s \in DOMAIN subs :
            Returned(s) =>
                subs[s].log = ArrayLog(cfg.arr, LastOp.count) \o <<Ev("complete", 0)>>

\* The first subscription of a run does receive them.
FirstTakeCountsFromZero ==
    (cfg.kind = "array" /\ K = 1 /\ LastOp.type = "take"
        /\ LastOp.count > 0 /\ Len(cfg.arr) >= LastOp.count
        /\ 1 \in DOMAIN subs /\ Returned(1)) =>
            subs[1].log = ArrayLog(cfg.arr, LastOp.count) \o <<Ev("complete", 0)>>

\* C29: Subscriber.complete is idempotent: however often complete() is
\* called, the destination's complete runs at most once, and for a direct
\* subscription it runs exactly on the first call.
C29_CompleteOnce ==
    \A s \in DOMAIN subs :
        /\ Count(subs[s].log, "complete") <= 1
        /\ K = 0 => (Count(subs[s].log, "complete") = 1 <=> subs[s].completeCalls[0] > 0)
        /\ K = 0 => (subs[s].stopped[0] <=> subs[s].completeCalls[0] > 0)

C29_Witness ==
    \E s \in DOMAIN subs :
        /\ K = 0
        /\ subs[s].completeCalls[0] >= 2
        /\ Count(subs[s].log, "complete") = 1

\* C30: Subscriber.error forwards to the destination on every call, repeated
\* calls and calls after complete() included, and does not stop the
\* Subscriber: as long as complete() was not called every next is forwarded,
\* also after an error.
C30_ErrorAlwaysForwarded ==
    \A s \in DOMAIN subs :
        K = 0 =>
            /\ Count(subs[s].log, "error") = subs[s].errorCalls[0]
            /\ (subs[s].completeCalls[0] = 0) =>
                  /\ ~subs[s].stopped[0]
                  /\ NextValues(subs[s].log) = subs[s].inn[0]

C30_Witness ==
    \E s \in DOMAIN subs :
        /\ K = 0
        /\ subs[s].errorCalls[0] >= 2
        /\ \E a, b \in 1..Len(subs[s].log) :
              a < b /\ subs[s].log[a].t = "complete" /\ subs[s].log[b].t = "error"
        /\ \E a, b \in 1..Len(subs[s].log) :
              a < b /\ subs[s].log[a].t = "error" /\ subs[s].log[b].t = "next"

CompleteStep(s) == subs'[s].completeCalls # subs[s].completeCalls
\* a step in which complete() was called on a Subscriber of subscription s

UnsubscribeStep(s) == subs'[s].unsubs # subs[s].unsubs
\* a step in which unsubscribe() was called on the returned Subscriber

NextStep(s) == subs'[s].inn[K] # subs[s].inn[K]
\* a step in which next was called on the returned Subscriber

IndependentStep ==
    \A s \in DOMAIN subs :
        /\ CompleteStep(s) =>
              /\ subs'[s].fin = subs[s].fin
              /\ subs'[s].torn = subs[s].torn
        /\ UnsubscribeStep(s) =>
              /\ subs'[s].stopped = subs[s].stopped
              /\ subs'[s].completeCalls = subs[s].completeCalls
              /\ subs'[s].log = subs[s].log
        /\ (NextStep(s) /\ subs[s].unsubs > 0 /\ subs[s].completeCalls[K] = 0) =>
              /\ Len(subs'[s].log) > Len(subs[s].log)
              /\ subs'[s].log[Len(subs[s].log) + 1].t = "next"

\* C32: complete() and unsubscribe() are independent terminal paths of a
\* Subscriber: complete() neither runs nor removes a teardown, unsubscribe()
\* neither sets isStopped nor calls the destination's complete, and a
\* Subscriber that was unsubscribed but not completed still forwards next.
C32_IndependentTerminals == [][IndependentStep]_vars

C32_Witness ==
    \E s \in DOMAIN subs :
        /\ K = 0
        /\ subs[s].torn > 0 /\ subs[s].unsubs > 0
        /\ Len(subs[s].fin[0]) = 1
        /\ subs[s].completeCalls[0] > 0 /\ subs[s].stopped[0]
        /\ Len(subs[s].log) > subs[s].tornAt + 1
        /\ subs[s].log[subs[s].tornAt + 1].t = "next"
        /\ subs[s].log[Len(subs[s].log)].t = "complete"

SourceTornDown(s) ==
    /\ Len(subs[s].fin[0]) > 0 => subs[s].torn > 0
    /\ \A k \in DOMAIN listeners : listeners[k].handler # s
\* the teardown the source's producer returned for subscription s has run,
\* and the event target holds no listener of s

SilentOnceUnsubscribed ==
    \A s \in DOMAIN subs :
        (K >= 1 /\ subs[s].unsubs > 0) => subs'[s].log = subs[s].log

\* C38: unsubscribing the Subscriber returned by source.pipe(map / filter /
\* take) also tears down the inner subscription: the source's teardown runs
\* (fromEvent(...).pipe(map(f)) takes its listener off) and no further value
\* reaches the downstream observer.
C38_InnerTornDown ==
    /\ [](\A s \in DOMAIN subs : (K >= 1 /\ subs[s].unsubs > 0) => SourceTornDown(s))
    /\ [][SilentOnceUnsubscribed]_vars

OuterHoldsNoTeardown ==
    \A s \in DOMAIN subs :
        K >= 1 =>
            /\ subs[s].fin[K] = <<>>
            /\ subs[s].torn = 0
            /\ (cfg.kind = "event" /\ subs[s].pc = "returned") =>
                  \E k \in DOMAIN listeners : listeners[k].handler = s
\* what holds instead: behind an operator the returned Subscriber never
\* holds a teardown, none ever runs, and fromEvent's listener stays

\* ------------------------------------------------------------------------
\* Properties of Observable.pipe (SpecCompose)
\* ------------------------------------------------------------------------
RECURSIVE Nested(_, _)
Nested(observable, fns) ==
    IF fns = <<>>
    THEN observable
    ELSE ApplyOperator(fns[Len(fns)], Nested(observable, SubSeq(fns, 1, Len(fns) - 1)))
\* fk(...f2(f1(observable))), written from the outermost call inwards

\* C20: what pipe(f1, ..., fk) returns is fk(...f2(f1(input))); with no
\* operator it is the input, with one operator it is f1(input); and piping
\* the result again equals one pipe call with all the operators.
C20_PipeComposes ==
    piped.result # <<>> =>
        /\ piped.result[1] = Nested(piped.input, piped.fns)
        /\ Len(piped.fns) = 0 => piped.result[1] = piped.input
        /\ Len(piped.fns) = 1 => piped.result[1] = ApplyOperator(piped.fns[1], piped.input)

C20_Witness ==
    /\ piped.result # <<>>
    /\ Len(piped.fns) = 3
    /\ piped.fns[1] # piped.fns[3]
    /\ piped.result[1].ops = piped.fns

\* ------------------------------------------------------------------------
\* SecurityManager.checkRateLimit (SpecRate)
\* ------------------------------------------------------------------------
RateKeys == {"a", "b"}

RateLimitArgs == 0..2
\* the limit argument of a call

RateWindows == {0, 2}
\* the windowMs argument, the same for all calls of a run

NewRateLimit(now) == [count |-> 0, timestamp |-> now]
\* { count: 0, timestamp: now }

RateLimit_reached_offByOne(count, limit) == count > limit
\* the check letting one call too many through

RateLimit_reached(count, limit) == count >= limit
\* if (rateLimit.count >= limit)

SecurityManager_checkRateLimit(rateLimits, key, limit, windowMs, now) ==
    LET rateLimit == IF rateLimits[key] # <<>> THEN rateLimits[key][1] ELSE NewRateLimit(now)
    IN  IF now - rateLimit.timestamp > windowMs
        THEN [rateLimits |-> [rateLimits EXCEPT ![key] = <<[count |-> 1, timestamp |-> now]>>],
              return     |-> TRUE]
        ELSE IF RateLimit_reached(rateLimit.count, limit)
        THEN [rateLimits |-> rateLimits, return |-> FALSE]
        ELSE [rateLimits |-> [rateLimits EXCEPT ![key] =
                                 <<[rateLimit EXCEPT !.count = @ + 1]>>],
              return     |-> TRUE]
\* rateLimits[key] is <<>> while the key has no entry

CheckRateLimit(key, limit) ==
    /\ Len(rate.hist) < MaxChecks
    /\ LET r == SecurityManager_checkRateLimit(rate.rateLimits, key, limit,
                                               rate.windowMs, rate.now)
       IN  rate' = [rate EXCEPT
                       !.rateLimits = r.rateLimits,
                       !.hist = Append(@, [key |-> key, limit |-> limit, t |-> rate.now,
                                           ok |-> r.return,
                                           window |-> IF r.rateLimits[key] # <<>>
                                                      THEN r.rateLimits[key][1].timestamp
                                                      ELSE rate.now])]
    /\ UNCHANGED <<pipeVars, subjVars, timerVars, ws, net, unitVars, calls>>
\* hist keeps every call: its arguments, the time, the result and the
\* timestamp of the key's window after the call

TimePasses ==
    /\ rate.now < MaxTime
    /\ rate' = [rate EXCEPT !.now = @ + 1]
    /\ UNCHANGED <<pipeVars, subjVars, timerVars, ws, net, unitVars, calls>>
\* Date.now() grows between calls

RateInit ==
    /\ cfg = pipeFromArray(ManualSource, <<>>)
    /\ tcfg = TimerCall(0, Undefined)
    /\ PipeStart /\ SubjectStart /\ TimerStart /\ WsStart /\ NetStart /\ UnitStart
    /\ calls = 0
    /\ \E w \in RateWindows : rate = [RateIdle EXCEPT !.windowMs = w]

RateNext ==
    \/ \E key \in RateKeys, limit \in RateLimitArgs : CheckRateLimit(key, limit)
    \/ TimePasses

SpecRate == RateInit /\ [][RateNext]_vars

GrantedIn(key, limit, window) ==
    {i \in DOMAIN rate.hist :
        /\ rate.hist[i].key = key /\ rate.hist[i].limit = limit
        /\ rate.hist[i].window = window /\ rate.hist[i].ok}
\* the calls for key with this limit that returned true in the window
\* recorded at time window

GrantedBefore(i) ==
    {j \in 1..(i - 1) :
        /\ rate.hist[j].key = rate.hist[i].key
        /\ rate.hist[j].window = rate.hist[i].window
        /\ rate.hist[j].ok}

\* C24: for any key and any limit >= 1, within one window (the calls made
\* from the window's recorded timestamp until windowMs has passed)
\* checkRateLimit returns true at most limit times, and a call made in the
\* window after limit calls returned true in it returns false.
C24_AtMostLimit ==
    /\ \A key \in RateKeys, limit \in RateLimitArgs, window \in 0..MaxTime :
          limit >= 1 => Cardinality(GrantedIn(key, limit, window)) <= limit
    /\ \A i \in DOMAIN rate.hist :
          /\ rate.hist[i].t - rate.hist[i].window <= rate.windowMs
          /\ (rate.hist[i].limit >= 1 /\ Cardinality(GrantedBefore(i)) >= rate.hist[i].limit)
                => ~rate.hist[i].ok

C24_Witness ==
    \E i, j, k \in DOMAIN rate.hist :
        /\ i < j /\ j < k
        /\ rate.hist[i].key = "a" /\ rate.hist[j].key = "a" /\ rate.hist[k].key = "a"
        /\ rate.hist[i].limit = 1 /\ rate.hist[j].limit = 1 /\ rate.hist[k].limit = 1
        /\ rate.hist[i].ok /\ ~rate.hist[j].ok /\ rate.hist[k].ok
        /\ rate.hist[i].window = rate.hist[j].window
        /\ rate.hist[k].window > rate.hist[i].window

\* ------------------------------------------------------------------------
\* WebSocketManager: connect and automatic reconnection (SpecWs)
\* ------------------------------------------------------------------------
WsConfigs ==
    {[autoReconnect |-> r, maxReconnectAttempts |-> m, ctorThrows |-> t] :
        r \in BOOLEAN, m \in 0..2, t \in BOOLEAN}
\* ctorThrows: new WebSocket(url) throws (a url it rejects) instead of
\* returning a socket that fails later

WebSocketManager_tryReconnect(w) ==
    IF ~w.cfg.autoReconnect \/ w.reconnectAttempts >= w.cfg.maxReconnectAttempts
    THEN w
    ELSE [w EXCEPT !.reconnectTimer = TRUE]
\* clearTimeout of the previous timer and setTimeout of the new one

WebSocketManager_connect(w, socket) ==
    [w EXCEPT !.status = "connecting", !.socket = socket, !.reconnectAttempts = 0]
\* this._socket = new WebSocket(...); this._setupEventHandlers();
\* this._reconnectAttempts = 0

WebSocketManager_connects(w) ==
    IF w.socket /\ w.status \in {"open", "connecting"}
    THEN w
    ELSE IF w.cfg.ctorThrows
    THEN WebSocketManager_tryReconnect([w EXCEPT !.status = "error"])
    ELSE WebSocketManager_connect(w, TRUE)
\* connect(): the try block, or its catch when the constructor throws

NewWebSocketManager(config) ==
    WebSocketManager_connects(
        [WsIdle EXCEPT !.cfg = config])
\* the constructor with autoConnect: it calls connect()

WsSocketOpens ==
    /\ ws.socket /\ ws.status = "connecting"
    /\ ws' = [ws EXCEPT !.status = "open", !.opened = TRUE]
    /\ UNCHANGED <<pipeVars, subjVars, timerVars, rate, net, unitVars, calls>>

WsSocketError ==
    /\ ws.socket /\ ws.status \in {"connecting", "open"}
    /\ ws' = [ws EXCEPT !.status = "error"]
    /\ UNCHANGED <<pipeVars, subjVars, timerVars, rate, net, unitVars, calls>>

WsSocketCloses(code) ==
    /\ ws.socket
    /\ LET w == [ws EXCEPT !.status = "closed", !.socket = FALSE, !.reconnectTimer = FALSE]
       IN  ws' = IF code # 1000 /\ w.cfg.autoReconnect
                 THEN WebSocketManager_tryReconnect(w)
                 ELSE w
    /\ UNCHANGED <<pipeVars, subjVars, timerVars, rate, net, unitVars, calls>>
\* onclose: status CLOSED, the socket dropped, the timers cleared, then
\* _tryReconnect unless the close was a normal one

WsReconnectFires ==
    /\ ws.reconnectTimer
    /\ ws.made < ws.cfg.maxReconnectAttempts + MaxTicks
    /\ ws' = WebSocketManager_connects(
                 [ws EXCEPT !.reconnectTimer = FALSE,
                            !.reconnectAttempts = @ + 1,
                            !.made = @ + 1])
    /\ UNCHANGED <<pipeVars, subjVars, timerVars, rate, net, unitVars, calls>>
\* the reconnect timer's callback: this._reconnectAttempts++; this.connect().
\* made counts the automatic reconnection attempts

WsInit ==
    /\ cfg = pipeFromArray(ManualSource, <<>>)
    /\ tcfg = TimerCall(0, Undefined)
    /\ PipeStart /\ SubjectStart /\ TimerStart /\ RateStart /\ NetStart /\ UnitStart
    /\ calls = 0
    /\ \E config \in WsConfigs : ws = NewWebSocketManager(config)

WsNext ==
    \/ WsSocketOpens
    \/ WsSocketError
    \/ \E code \in {1000, 1006} : WsSocketCloses(code)
    \/ WsReconnectFires

SpecWs == WsInit /\ [][WsNext]_vars

\* C23: with autoReconnect on and no connection attempt ever opening, the
\* automatic reconnection attempts number at most maxReconnectAttempts.
C23_ReconnectsBounded ==
    (ws.cfg.autoReconnect /\ ~ws.opened) => ws.made <= ws.cfg.maxReconnectAttempts

\* The bound is kept when every attempt fails by the constructor throwing.
ReconnectsBoundedWhenCtorThrows ==
    (ws.cfg.autoReconnect /\ ws.cfg.ctorThrows) => ws.made <= ws.cfg.maxReconnectAttempts

\* ------------------------------------------------------------------------
\* NetworkManager: the request queue and its processing passes (SpecNet)
\* ------------------------------------------------------------------------
NetDomains == {"d", "e"}

NetThrottles == [d |-> [perSecond |-> 1]]
\* setDomainThrottle("d", { perSecond: 1 }); domain e has no configuration

NetPriorities == {0, 1}
\* the priority argument of enqueue

LowestPriority == 0 - MaxRequests
\* a throttled request is put back with its priority lowered by one

RECURSIVE SortedFrom(_, _)
SortedFrom(queue, p) ==
    IF p < LowestPriority
    THEN <<>>
    ELSE SelectSeq(queue, LAMBDA r : r.priority = p) \o SortedFrom(queue, p - 1)

Prioritized(queue) == SortedFrom(queue, 1)
\* [...currentQueue].sort((a, b) => b.priority - a.priority): a stable sort,
\* highest priority first

Take(s, n) == SubSeq(s, 1, IF n < Len(s) THEN n ELSE Len(s))
\* slice(0, n)

NewDomainCounter == [def |-> TRUE, count |-> 0, stale |-> FALSE]
\* second: { count: 0, timestamp: now }; stale says that a second or more
\* has passed since the timestamp

NetworkManager_canProcessDomain(n, domain) ==
    IF domain \notin DOMAIN NetThrottles
    THEN [n |-> n, return |-> TRUE]
    ELSE LET counter == IF n.counter.def THEN n.counter ELSE NewDomainCounter
         IN  IF counter.stale
             THEN [n |-> [n EXCEPT !.counter = NewDomainCounter], return |-> TRUE]
             ELSE [n |-> [n EXCEPT !.counter = counter],
                   return |-> ~(counter.count >= NetThrottles[domain].perSecond)]

NetworkManager_incrementDomainCounter(n, domain) ==
    IF domain \notin DOMAIN NetThrottles
    THEN n
    ELSE [n EXCEPT !.counter = [(IF @.def THEN @ ELSE NewDomainCounter)
                                   EXCEPT !.count = @ + 1]]
\* the counters of domains without a throttle are never read

ConcatMap_next(n, p) ==
    IF n.passes[p].rest = <<>>
    THEN [n EXCEPT !.passes[p].pc = "done"]
    ELSE LET request == Head(n.passes[p].rest)
             n1 == [n EXCEPT !.passes[p].cur = request, !.passes[p].rest = Tail(@)]
             c  == NetworkManager_canProcessDomain(n1, request.domain)
         IN  IF ~c.return
             THEN [c.n EXCEPT !.passes[p].pc = "timer"]
             ELSE [NetworkManager_incrementDomainCounter(c.n, request.domain)
                      EXCEPT !.active = @ + 1, !.passes[p].pc = "flight"]
\* concatMap takes the next request of pass p: a throttled one waits for
\* timer(delayTime), another one is counted as active and executed

NetworkManager_available(n) == n.max - n.active

NetworkManager_processQueue(n) ==
    IF ~n.online \/ n.queue = <<>> \/ n.active >= n.max
    THEN n
    ELSE LET toExecute == Take(Prioritized(n.queue), NetworkManager_available(n))
             p == Len(n.passes) + 1
         IN  ConcatMap_next(
                 [n EXCEPT !.passes = Append(@, [cur |-> NoRequest, rest |-> toExecute,
                                                 pc |-> "start"]),
                           !.started = @ + 1], p)

NetworkManager_enqueue(n, domain, priority) ==
    NetworkManager_processQueue(
        [n EXCEPT !.queue = Append(@, [id |-> n.nextId, domain |-> domain,
                                       priority |-> priority]),
                  !.nextId = @ + 1])
\* the queue's new value reaches _queueProcessor$, whose tap calls
\* _processQueue

NetworkManager_dequeue(n, id) ==
    LET newQueue == SelectSeq(n.queue, LAMBDA r : r.id # id)
    IN  IF Len(newQueue) # Len(n.queue)
        THEN NetworkManager_processQueue([n EXCEPT !.queue = newQueue])
        ELSE n

Settled(n) ==
    [n EXCEPT !.passes = SelectSeq(@, LAMBDA q : q.pc \in {"timer", "flight"})]
\* the passes that ended (their subscription is over) are forgotten

NetStep(n) ==
    /\ net.started < MaxPasses
    /\ net' = Settled(n)
    /\ UNCHANGED <<pipeVars, subjVars, timerVars, rate, ws, unitVars, calls>>

NetEnqueue(domain, priority) ==
    /\ net.nextId <= MaxRequests
    /\ NetStep(NetworkManager_enqueue(net, domain, priority))

NetRequestCompletes(p) ==
    /\ p \in DOMAIN net.passes
    /\ net.passes[p].pc = "flight"
    /\ LET n1 == NetworkManager_dequeue(net, net.passes[p].cur.id)
           n2 == [n1 EXCEPT !.active = @ - 1, !.deferred = @ + 1]
       IN  NetStep(ConcatMap_next(n2, p))
\* request.execute() emits and completes: tap's next takes the request off
\* the queue, tap's complete lowers the counter and asks for a later pass
\* (setTimeout), then concatMap goes on with the pass

NetRequestFails(p) ==
    /\ p \in DOMAIN net.passes
    /\ net.passes[p].pc = "flight"
    /\ LET n1 == NetworkManager_dequeue(net, net.passes[p].cur.id)
       IN  NetStep([n1 EXCEPT !.passes[p].pc = "failed"])
\* request.execute() errors (a request without retry): tap's error takes the
\* request off the queue; the error ends the pass; the counter stays

NetThrottleTimer(p) ==
    /\ p \in DOMAIN net.passes
    /\ net.passes[p].pc = "timer"
    /\ net.nextId <= MaxRequests
    /\ LET request == net.passes[p].cur
           n0 == [net EXCEPT !.counter.stale = @ \/ net.counter.def]
           n1 == NetworkManager_enqueue(n0, request.domain, request.priority - 1)
           n2 == NetworkManager_dequeue(n1, request.id)
       IN  NetStep(ConcatMap_next(n2, p))
\* timer(delayTime) fires, a second after the request was found throttled:
\* the request is put back with a lower priority, the old entry is taken off
\* the queue, and concatMap goes on with the pass

NetDeferredPass ==
    /\ net.deferred > 0
    /\ NetStep(NetworkManager_processQueue([net EXCEPT !.deferred = @ - 1]))
\* setTimeout(() => this._processQueue(), 0)

NetSecondPasses ==
    /\ net.counter.def /\ ~net.counter.stale
    /\ NetStep([net EXCEPT !.counter.stale = TRUE])

NetOffline ==
    /\ net.online
    /\ NetStep([net EXCEPT !.online = FALSE])
\* the window's offline event

NetOnline ==
    /\ ~net.online
    /\ NetStep(NetworkManager_processQueue([net EXCEPT !.online = TRUE]))
\* the window's online event: checkNetworkStatus(), then _processQueue()

NetInit ==
    /\ cfg = pipeFromArray(ManualSource, <<>>)
    /\ tcfg = TimerCall(0, Undefined)
    /\ PipeStart /\ SubjectStart /\ TimerStart /\ RateStart /\ WsStart /\ UnitStart
    /\ calls = 0
    /\ \E max \in 1..MaxConcurrent, online \in BOOLEAN :
          net = [NetIdle EXCEPT !.max = max, !.online = online]
\* setMaxConcurrentRequests(max) called before any request is queued

NetNext ==
    \/ \E domain \in NetDomains, priority \in NetPriorities : NetEnqueue(domain, priority)
    \/ \E p \in 1..MaxRequests : NetRequestCompletes(p)
    \/ \E p \in 1..MaxRequests : NetRequestFails(p)
    \/ \E p \in 1..MaxRequests : NetThrottleTimer(p)
    \/ NetDeferredPass
    \/ NetSecondPasses
    \/ NetOffline
    \/ NetOnline

SpecNet == NetInit /\ [][NetNext]_vars

\* C22: whatever the order of enqueue calls, request completions, throttle
\* timers and online events, the active-request counter never exceeds the
\* configured maximum of concurrent requests.
C22_ActiveWithinMax == net.active <= net.max

InFlight == Len(SelectSeq(net.passes, LAMBDA q : q.pc = "flight"))

\* Every pass has at most one request in flight, and a pass is only begun
\* while the counter is below the maximum.
CounterCoversFlights == InFlight <= net.active

\* C39: when a queued request of the NetworkManager finishes with an error
\* its slot is released: the active-request counter is lowered, so whenever
\* no queued request is in flight the counter is back at 0.
C39_SlotReleasedOnError == InFlight = 0 => net.active = 0

\* ------------------------------------------------------------------------
\* Subscription on its own: add and unsubscribe (SpecSubscription)
\* ------------------------------------------------------------------------
AddArguments == {"t1", "t2", "undefined", "null", "zero", "object"}
\* what user code passes to add: two functions, and four values that are
\* not functions, of which "object" is truthy

RECURSIVE Subscription_forEach(_, _)
Subscription_forEach(finalizers, i) ==
    IF i > Len(finalizers)
    THEN <<>>
    ELSE IF finalizers[i] \in Functions
         THEN <<finalizers[i]>> \o Subscription_forEach(finalizers, i + 1)
         ELSE <<"TypeError">>
\* this._finalizers.forEach((teardown) => teardown()): the calls made, in
\* order; calling a value that is not a function throws, which ends the loop

SubscriptionAdd(x) ==
    /\ calls < MaxCalls
    /\ sbn' = [sbn EXCEPT !.finalizers = Subscription_add(@, x),
                          !.added = Append(@, x)]
    /\ calls' = calls + 1
    /\ UNCHANGED <<pipeVars, subjVars, timerVars, rate, ws, net, promise>>

SubscriptionUnsubscribe ==
    /\ calls < MaxCalls
    /\ sbn' = [sbn EXCEPT !.runs = Append(@,
                   [invoked |-> Subscription_forEach(sbn.finalizers, 1),
                    added   |-> sbn.added])]
    /\ calls' = calls + 1
    /\ UNCHANGED <<pipeVars, subjVars, timerVars, rate, ws, net, promise>>

SubscriptionInit ==
    /\ cfg = pipeFromArray(ManualSource, <<>>)
    /\ tcfg = TimerCall(0, Undefined)
    /\ PipeStart /\ SubjectStart /\ TimerStart /\ AppStart
    /\ calls = 0

SubscriptionNext ==
    \/ \E x \in AddArguments : SubscriptionAdd(x)
    \/ SubscriptionUnsubscribe

SpecSubscription == SubscriptionInit /\ [][SubscriptionNext]_vars

IsCallable(x) == x \in {"t1", "t2"}
\* the arguments of add that are functions

\* C31: Subscription.unsubscribe() invokes exactly the callable teardowns
\* that were passed to add, in the order they were added; a value that is
\* not callable is neither stored nor invoked.
C31_TeardownsInOrder ==
    /\ sbn.finalizers = SelectSeq(sbn.added, IsCallable)
    /\ \A i \in DOMAIN sbn.runs :
          sbn.runs[i].invoked = SelectSeq(sbn.runs[i].added, IsCallable)

C31_Witness ==
    \E i \in DOMAIN sbn.runs :
        /\ sbn.runs[i].added = <<"t2", "object", "t1">>
        /\ sbn.runs[i].invoked = <<"t2", "t1">>

\* ------------------------------------------------------------------------
\* fromPromise (SpecPromise)
\* ------------------------------------------------------------------------
fromPromise == [kind |-> "promise", arr |-> <<>>, sel |-> "none", ops |-> <<>>]
\* new Observable(producer) whose producer calls promise.then(onFulfilled,
\* onRejected) and returns nothing

Promise_then(p, s) == [p EXCEPT !.reactions = Append(@, s)]
\* promise.then(...) called by the producer of subscription s: the pair of
\* callbacks waits for the promise to settle, then for its turn as a job

fromPromise_onFulfilled_completeFirst(v, st) ==
    Subscriber_next(0, v, Subscriber_complete(0, st))
\* the callback calling complete before next

fromPromise_onFulfilled(v, st) ==
    Subscriber_complete(0, Subscriber_next(0, v, st))
\* (value) => { subscriber.next(value); subscriber.complete(); }

fromPromise_onRejected(st) == Subscriber_error(0, st)
\* (err) => { subscriber.error(err); }

PromiseSubscribe ==
    /\ ~Busy
    /\ Len(subs) < MaxSubs
    /\ subs' = Append(subs, Observable_subscribe_return(NewSubscription("producing")))
    /\ promise' = Promise_then(promise, Len(subs) + 1)
    /\ UNCHANGED <<cfg, seen, listeners, piped, calls, subjVars, timerVars,
                   rate, ws, net, sbn>>
\* subscribe(): the producer runs, calls then and returns undefined, which
\* subscriber.add does not keep

PromiseSettles(state, v) ==
    /\ promise.state = "pending"
    /\ promise' = [promise EXCEPT
                     !.state = state,
                     !.value = v,
                     !.early = {s \in DOMAIN subs : subs[s].unsubs > 0}]
    /\ UNCHANGED <<pipeVars, calls, subjVars, timerVars, rate, ws, net, sbn>>
\* the promise is fulfilled with v or rejected. early (history): the
\* subscriptions already unsubscribed at that moment

PromiseReaction ==
    /\ promise.state # "pending"
    /\ promise.reactions # <<>>
    /\ LET s == Head(promise.reactions)
       IN  Commit(s, IF promise.state = "fulfilled"
                     THEN fromPromise_onFulfilled(promise.value, Cascade(s))
                     ELSE fromPromise_onRejected(Cascade(s)))
    /\ promise' = [promise EXCEPT !.reactions = Tail(@)]
    /\ UNCHANGED <<cfg, listeners, piped, calls, subjVars, timerVars,
                   rate, ws, net, sbn>>
\* the job of the oldest waiting then call runs: one of its two callbacks

PromiseInit ==
    /\ cfg = pipeFromArray(fromPromise, <<>>)
    /\ tcfg = TimerCall(0, Undefined)
    /\ PipeStart /\ SubjectStart /\ TimerStart /\ AppStart
    /\ calls = 0

PromiseNext ==
    \/ PromiseSubscribe
    \/ \E v \in Values : PromiseSettles("fulfilled", v)
    \/ PromiseSettles("rejected", 0)
    \/ PromiseReaction
    \/ \E s \in 1..MaxSubs : s \in DOMAIN subs /\ Unsubscribe(s)

SpecPromise == PromiseInit /\ [][PromiseNext]_vars

Reacted(s) == \A k \in DOMAIN promise.reactions : promise.reactions[k] # s
\* the then callbacks of subscription s are not waiting (any more)

\* C35: for a subscription to fromPromise(p): when p fulfils with v the
\* observer gets next(v) immediately followed by complete and never error;
\* when p rejects with e it gets error(e) only, never next or complete.
C35_PromiseOutcome ==
    \A s \in DOMAIN subs :
        subs[s].log =
            IF ~Reacted(s) THEN <<>>
            ELSE IF promise.state = "fulfilled"
                 THEN <<Ev("next", promise.value), Ev("complete", 0)>>
                 ELSE <<Ev("error", 0)>>

C35_Witness ==
    /\ Len(subs) = 2
    /\ promise.state = "fulfilled"
    /\ Reacted(1) /\ ~Reacted(2)
    /\ subs[1].log = <<Ev("next", 5), Ev("complete", 0)>>

PromiseRejectedSeen ==
    \E s \in DOMAIN subs : promise.state = "rejected" /\ subs[s].log = <<Ev("error", 0)>>

\* C36: fromPromise has no cancellation: unsubscribe() before the promise
\* settles registers and runs no teardown, and when the promise later
\* fulfils, next and complete are still forwarded to the observer.
C36_NoCancellation ==
    \A s \in DOMAIN subs :
        /\ subs[s].fin[0] = <<>>
        /\ subs[s].torn = 0
        /\ (s \in promise.early /\ promise.state = "fulfilled" /\ Reacted(s)) =>
              /\ Count(subs[s].log, "next") = 1
              /\ Count(subs[s].log, "complete") = 1

C36_Witness ==
    \E s \in DOMAIN subs :
        /\ s \in promise.early
        /\ promise.state = "fulfilled"
        /\ Reacted(s)
        /\ subs[s].unsubs > 0
        /\ Count(subs[s].log, "next") = 1

\* ------------------------------------------------------------------------
\* timer and interval: unsubscribing (SpecTimerUnsub)
\* ------------------------------------------------------------------------
TimerUnsubscribe(s) ==
    /\ TickIdle
    /\ calls < MaxCalls
    /\ s \in DOMAIN tsubs
    /\ tsubs' = [tsubs EXCEPT
                    ![s].unsubs = @ + 1,
                    ![s].unsubAt = IF tsubs[s].unsubs = 0 THEN Len(tsubs[s].log) ELSE @,
                    ![s].torn = @ + Len(tsubs[s].fin)]
    /\ calls' = calls + 1
    /\ UNCHANGED <<tcfg, actions, timers, tick, pipeVars, subjVars, appVars>>
\* the user calls unsubscribe() on the Subscriber subscribe() returned: its
\* finalizers run. Nothing else is done: Subscription.unsubscribe knows
\* neither the action nor its timer

TimerUnsubNext ==
    \/ TimerSubscribe
    \/ \E t \in timers.live : TickStart(t)
    \/ TickWork
    \/ TickEnd
    \/ \E s \in 1..MaxSubs : TimerUnsubscribe(s)

SpecTimerUnsub == TimerInit /\ [][TimerUnsubNext]_vars

\* C37: after unsubscribe() on the Subscriber returned from subscribing to
\* timer(...) or interval(...), the scheduled action's timer is cancelled
\* and the observer receives no further next.
C37_UnsubscribeCancelsTimer ==
    \A s \in DOMAIN tsubs :
        (tsubs[s].unsubs > 0 /\ TickIdle) =>
            /\ LiveTimersOf(s) = {}
            /\ Count(tsubs[s].log, "next") = Count(SubSeq(tsubs[s].log, 1, tsubs[s].unsubAt), "next")

TimerKeepsNoTeardown ==
    \A s \in DOMAIN tsubs : tsubs[s].fin = <<>> /\ tsubs[s].torn = 0
\* what holds instead: no Subscriber of a timer ever holds a teardown

\* ------------------------------------------------------------------------
\* AsyncAction with a work function that may throw (SpecActionThrows)
\* ------------------------------------------------------------------------
TickThrows ==
    /\ tick.pc = "work"
    /\ actions' = [actions EXCEPT ![tick.action].runs = @ + 1]
    /\ tick' = [pc |-> "idle", action |-> 0, asked |-> 0]
    /\ UNCHANGED <<tcfg, tsubs, timers, calls, pipeVars, subjVars, appVars>>
\* this._work.call(this, this._state) throws: execute has no try, so the
\* exception leaves it before the `if` after the call; the platform's timer
\* is not touched by an exception in its callback

ActionThrowsNext ==
    \/ SchedulerSchedule
    \/ \E t \in timers.live : TickStart(t)
    \/ CountTick
    \/ TickThrows
    \/ TickEnd
    \/ \E a \in 1..MaxSubs : ActionSchedule(a)

SpecActionThrows == ActionInit /\ [][ActionThrowsNext]_vars

\* C40: in every quiescent state of an AsyncAction (no tick executing) the
\* action is either idle (no timer handle, reentrancy flag false) or armed
\* (timer handle present, flag true): the handle exists if and only if the
\* flag is true; a handle with a false flag is only seen inside a tick.
C40_IdleOrArmed ==
    TickIdle =>
        \A a \in DOMAIN actions : (actions[a].id # 0) <=> actions[a].padding

====
